---------------------------- MODULE Spec2Model ----------------------------
(***************************************************************************)
(* A model of the metadynamics bias of src/bias/MetaD.cpp: the hill list   *)
(* or grid of every walker, the hills files the walkers share, the         *)
(* constructor (fresh start and restart) and update().                     *)
(*                                                                         *)
(* Numbers are fixed point.  Heights and bias values are in units of 1/1000*)
(* of the energy unit, CV values are grid units, an inverse width is in    *)
(* units of 1/InvOne, a squared normalised distance dp2 is in units of     *)
(* 1/8, a derivative is in units of 1/4.                                   *)
(***************************************************************************)
EXTENDS Integers, Sequences, FiniteSets, TLC

VARIABLES
    mw_n_,        \* WALKERS_N of the run
    grid_,        \* GRID_BIN given
    biasf_,       \* BIASFACTOR
    wgridstride_, \* GRID_WSTRIDE
    pc,           \* per walker: "input" (not parsed), "error", "none" (no process), "run", "crashed"
    adaptive_,    \* per walker: "NONE", "GEOM" or "DIFF" (ADAPTIVE of its current run)
    step,         \* getStep(): the step the engines of all walkers are at
    done,         \* per walker: its update() of this step has run
    isFirstStep,  \* per walker
    hills_,       \* per walker: the hill list
    BiasGrid_,    \* per walker: the grid cells, NoGrid in List mode
    ifiles,       \* per walker and file: [open, pos] of the IFile
    files,        \* per file: [exists, recs] of the hills file on disk
    gridfile,     \* per walker: the last grid snapshot written
    added,        \* history: per walker, the hills handed to addGaussian in its run
    origin,       \* history: per walker, where each hill of added came from
    lastPoll,     \* history: per walker, the step of the last poll of its run
    flexbin,      \* history: per walker, the calls its last update() made on flexbin
    updated,      \* history: per walker, update() was called in its run
    run,          \* history: per walker, how many times it was constructed
    ref,          \* history: the same engine steps run without any restart
    input,        \* the keywords of the METAD line of the plumed input
    error,        \* the message of the fatal error that ended a process, or ""
    probe         \* a call of one member function: its arguments and its result

vars == <<mw_n_, grid_, biasf_, wgridstride_, pc, adaptive_, step, done, isFirstStep,
          hills_, BiasGrid_, ifiles, files, gridfile, added, origin, lastPoll,
          flexbin, updated, run, ref, input, error, probe>>

-----------------------------------------------------------------------------
(* Bounds of the model *)

MaxStep == 4
MaxRestarts == 1
NProcs == 2

(* The values of WALKERS_N the model runs, and the walker ids *)
WalkersN == {1, 2}
Walkers == {0, 1}

(* Program constants and the configuration the model runs *)

DP2CUTOFF8 == 50
ExpOne == 100000
InvOne == 2
stride_ == 2
mw_rstride_ == 2
height0_ == 1000
KbT == 1000

ArgNames == <<"cv1", "cv2">>
getNumberOfArguments == Len(ArgNames)
Args == 1 .. getNumberOfArguments
sigma0_ == [i \in Args |-> 1]

(* The grid of Grid mode: GRID_MIN, GRID_MAX, GRID_BIN, hence getDx *)
gmin == <<0, 0>>
gmax == <<3, 1>>
getDx == <<1, 1>>
GridPoints == {<<x, y>> : x \in gmin[1] .. gmax[1], y \in gmin[2] .. gmax[2]}

(* The CV values the engine hands to update() at a deposition *)
CVs == {<<1, 1>>, <<2, 1>>}
(* The packed upper-triangular inverse covariances FlexibleBin hands out *)
FlexOut == {<<2, -1, 1>>}

-----------------------------------------------------------------------------
(* Arithmetic *)

Abs(x) == IF x < 0 THEN 0 - x ELSE x
Sgn(x) == IF x < 0 THEN 0 - 1 ELSE 1
(* Division rounding toward zero, as a truncated fixed-point quotient *)
Quot(a, b) == Sgn(a) * Sgn(b) * (Abs(a) \div Abs(b))

RECURSIVE SumOver(_, _)
SumOver(S, f) ==
    IF S = {} THEN 0
    ELSE LET x == CHOOSE y \in S : TRUE IN f[x] + SumOver(S \ {x}, f)

(* The function f as a table of its values: each value is computed once,
   when the table is built, and not at every later application *)
Table(f) == f @@ <<>>

(* f[1] + ... + f[n] *)
RECURSIVE SumTo(_, _)
SumTo(n, f) == IF n = 0 THEN 0 ELSE f[n] + SumTo(n - 1, f)
SumArgs(f) == SumTo(getNumberOfArguments, f)

(* exp(-k/8) in units of 1/ExpOne, k = 0, 1, 2, ... *)
ExpTab ==
    <<100000, 88250, 77880, 68729, 60653, 53526, 47237, 41686, 36788, 32465,
      28650, 25284, 22313, 19691, 17377, 15335, 13534, 11943, 10540, 9301,
      8208, 7244, 6393, 5642, 4979, 4394, 3877, 3422, 3020, 2665,
      2352, 2075, 1832, 1616, 1426, 1259, 1111, 980, 865, 764,
      674, 595, 525, 463, 409, 361, 318, 281, 248, 219,
      193, 170, 150, 133, 117, 103, 91, 80, 71, 63,
      55, 49, 43, 38, 34, 30>>
ExpKnot(k) == IF k + 1 <= Len(ExpTab) THEN ExpTab[k + 1] ELSE 0
(* exp(-(num/den)/8), interpolated linearly between the knots *)
ExpNeg8(num, den) ==
    LET k == num \div den
        rem == num % den
    IN (ExpKnot(k) * (den - rem) + ExpKnot(k + 1) * rem) \div den

-----------------------------------------------------------------------------
(* Collaborators of MetaD whose code is outside src/ *)

(* ActionWithArguments::difference for a non-periodic argument *)
difference(i, d1, d2) == d2 - d1

(* Matrices are functions on Args \X Args.  Invert of tools/Matrix.h, for the
   one- and two-argument runs of the model; the quotients are exact for the
   matrices the model uses *)
Det(m) ==
    IF getNumberOfArguments = 1 THEN m[1, 1]
    ELSE m[1, 1] * m[2, 2] - m[1, 2] * m[2, 1]
Invert(m) ==
    IF getNumberOfArguments = 1 THEN Table([i, j \in Args |-> Quot(1, m[1, 1])])
    ELSE LET det == Det(m)
         IN Table([i, j \in Args |->
                    Quot((IF i = j THEN m[3 - i, 3 - j] ELSE 0 - m[i, j]), det)])

(* Integer square root, rounded down *)
RECURSIVE SqrtIn(_, _, _)
SqrtIn(x, lo, hi) ==
    IF lo >= hi THEN lo
    ELSE LET mid == (lo + hi + 1) \div 2
         IN IF mid * mid <= x THEN SqrtIn(x, mid, hi) ELSE SqrtIn(x, lo, mid - 1)
ISqrt(x) == IF x <= 0 THEN 0 ELSE SqrtIn(x, 0, 46340)

(* cholesky of tools/Matrix.h: the lower factor L with L L^T = m *)
cholesky(m) ==
    IF getNumberOfArguments = 1 THEN Table([i, j \in Args |-> ISqrt(m[1, 1])])
    ELSE LET l11 == ISqrt(m[1, 1])
             l21 == Quot(m[2, 1], l11)
             l22 == ISqrt(m[2, 2] - l21 * l21)
         IN Table([i, j \in Args |->
               IF i = 1 /\ j = 1 THEN l11
               ELSE IF i = 2 /\ j = 1 THEN l21
               ELSE IF i = 2 /\ j = 2 THEN l22
               ELSE 0])

(* mult of tools/Matrix.h *)
mult(a, b) ==
    Table([i, j \in Args |-> SumArgs([k \in Args |-> a[i, k] * b[k, j]])])

-----------------------------------------------------------------------------
(* struct Gaussian and its constructor *)

InvSigma(x) == IF Abs(x) > 0 THEN Quot(InvOne, x) ELSE x

Gaussian(center, sigma, height, multivariate) ==
    [center |-> center, sigma |-> sigma, height |-> height,
     multivariate |-> multivariate,
     invsigma |-> Table([i \in DOMAIN sigma |-> InvSigma(sigma[i])])]

(* Position of entry (i, j), i <= j, in the packed upper triangle *)
Packed(i, j) == (i - 1) * getNumberOfArguments - ((i - 1) * (i - 2)) \div 2 + (j - i) + 1
(* "recompose the full inverse matrix" *)
Recompose(sigma) ==
    Table([i, j \in Args |->
             IF i <= j THEN sigma[Packed(i, j)] ELSE sigma[Packed(j, i)]])

-----------------------------------------------------------------------------
(* MetaD::evaluateGaussian: the bias of one hill at cv and what it adds to der *)

Dp8Multi(cv, hill, m) ==
    LET dp == Table([i \in Args |-> difference(i, hill.center[i], cv[i])])
    IN SumArgs([i \in Args |->
          4 * dp[i] * dp[i] * m[i, i]
          + SumArgs([j \in Args |-> IF j > i THEN 8 * dp[i] * dp[j] * m[i, j] ELSE 0])])

Dp8Diag(cv, hill) ==
    SumArgs([i \in Args |->
        LET dp == difference(i, hill.center[i], cv[i]) * hill.invsigma[i]
        IN dp * dp])

ZeroDer == [i \in Args |-> 0]

(* The interval members of a constructed run: "if(uppI_!=lowI_)" sets doInt_ *)
uppI_ == input.UPPER_INTERVAL
lowI_ == input.LOWER_INTERVAL
doInt_ == uppI_ # lowI_
(* "( doInt_ && cv[0] > lowI_ && cv[0] < uppI_) || (!doInt_)" *)
inInterval(cv) == (doInt_ /\ cv[1] > lowI_ /\ cv[1] < uppI_) \/ ~doInt_

(* An evaluation whose isotropic derivative divides by the width once *)
evaluateGaussianWidth(cv, hill) ==
    IF hill.multivariate
    THEN LET m == Recompose(hill.sigma)
             dp2 == Dp8Multi(cv, hill, m)
             bias == (hill.height * ExpKnot(dp2)) \div ExpOne
         IN IF dp2 < DP2CUTOFF8 /\ inInterval(cv)
            THEN [bias |-> bias,
                  der |-> Table([i \in Args |->
                     0 - 4 * SumArgs([j \in Args |->
                        difference(j, hill.center[j], cv[j]) * m[i, j] * bias])])]
            ELSE [bias |-> 0, der |-> ZeroDer]
    ELSE LET dp2 == Dp8Diag(cv, hill)
             bias == (hill.height * ExpKnot(dp2)) \div ExpOne
         IN IF dp2 < DP2CUTOFF8 /\ inInterval(cv)
            THEN [bias |-> bias,
                  der |-> Table([i \in Args |->
                     0 - bias * (difference(i, hill.center[i], cv[i]) * hill.invsigma[i])
                           * InvOne])]
            ELSE [bias |-> 0, der |-> ZeroDer]

(* An evaluation without the cutoff *)
evaluateGaussianNoCutoff(cv, hill) ==
    IF hill.multivariate
    THEN LET m == Recompose(hill.sigma)
             dp2 == Dp8Multi(cv, hill, m)
             bias == (hill.height * ExpKnot(dp2)) \div ExpOne
         IN IF inInterval(cv)
            THEN [bias |-> bias,
                  der |-> Table([i \in Args |->
                     0 - 4 * SumArgs([j \in Args |->
                        difference(j, hill.center[j], cv[j]) * m[i, j] * bias])])]
            ELSE [bias |-> 0, der |-> ZeroDer]
    ELSE LET dp2 == Dp8Diag(cv, hill)
             bias == (hill.height * ExpKnot(dp2)) \div ExpOne
         IN IF inInterval(cv)
            THEN [bias |-> bias,
                  der |-> Table([i \in Args |->
                     0 - bias * (difference(i, hill.center[i], cv[i]) * hill.invsigma[i])
                           * hill.invsigma[i]])]
            ELSE [bias |-> 0, der |-> ZeroDer]

evaluateGaussian(cv, hill) ==
    IF hill.multivariate
    THEN LET m == Recompose(hill.sigma)
             dp2 == Dp8Multi(cv, hill, m)
             bias == (hill.height * ExpKnot(dp2)) \div ExpOne
         IN IF dp2 < DP2CUTOFF8 /\ inInterval(cv)
            THEN [bias |-> bias,
                  der |-> Table([i \in Args |->
                     0 - 4 * SumArgs([j \in Args |->
                        difference(j, hill.center[j], cv[j]) * m[i, j] * bias])])]
            ELSE [bias |-> 0, der |-> ZeroDer]
    ELSE LET dp2 == Dp8Diag(cv, hill)
             bias == (hill.height * ExpKnot(dp2)) \div ExpOne
         IN IF dp2 < DP2CUTOFF8 /\ inInterval(cv)
            THEN [bias |-> bias,
                  der |-> Table([i \in Args |->
                     0 - bias * (difference(i, hill.center[i], cv[i]) * hill.invsigma[i])
                           * hill.invsigma[i]])]
            ELSE [bias |-> 0, der |-> ZeroDer]

-----------------------------------------------------------------------------
(* The Grid collaborator (tools/Grid.h, outside src/): a function from grid
   point to value and derivatives, with the grid points at the integer CV
   values, where interpolation returns the stored cell *)

NoGrid == <<>>
EmptyGrid == [p \in GridPoints |-> [v |-> 0, d |-> ZeroDer]]
Grid_getNeighbors(center, nneigh) ==
    {p \in GridPoints : \A i \in Args : Abs(p[i] - center[i]) <= nneigh[i]}
Grid_getValueAndDerivatives(grid, cv) == [bias |-> grid[cv].v, der |-> grid[cv].d]
Grid_addValueAndDerivatives(cell, bias, der) ==
    [v |-> cell.v + bias, d |-> Table([i \in Args |-> cell.d[i] + der[i]])]

(* The least n with n * n * den >= num: ceil(sqrt(num / den)) *)
RECURSIVE CeilRootFrom(_, _, _)
CeilRootFrom(num, den, n) ==
    IF n * n * den >= num THEN n ELSE CeilRootFrom(num, den, n + 1)
CeilRoot(num, den) == CeilRootFrom(num, den, 0)

(* diagMat of tools/Matrix.h, as far as getGaussianSupport uses it: for the
   leading eigenvalue maxautoval and its unit eigenvector, the products
   maxautoval * myautovec(i)^2 in units of 1/1000 *)
diagMatLeading(m) ==
    IF getNumberOfArguments = 1 THEN [i \in Args |-> 1000 * m[1, 1]]
    ELSE IF m[1, 2] = 0
    THEN LET ind == IF m[2, 2] > m[1, 1] THEN 2 ELSE 1
         IN [i \in Args |-> IF i = ind THEN 1000 * m[ind, ind] ELSE 0]
    ELSE LET a == m[1, 1]
             b == m[1, 2]
             c == m[2, 2]
             lam == ((a + c) * 1000 + ISqrt(((a - c) * (a - c) + 4 * b * b) * 1000000)) \div 2
             w1 == 1000 * b
             w2 == lam - 1000 * a
             n2 == (w1 * w1 + w2 * w2) \div 1000
         IN <<(lam * ((w1 * w1) \div n2)) \div 1000,
              (lam * ((w2 * w2) \div n2)) \div 1000>>

-----------------------------------------------------------------------------
(* MetaD::getGaussianSupport *)

getGaussianSupport(hill) ==
    IF hill.multivariate
    THEN LET myinv == Invert(Recompose(hill.sigma))
             lead == diagMatLeading(myinv)
         IN Table([i \in Args |->
               CeilRoot(DP2CUTOFF8 * lead[i], 4 * 1000 * getDx[i] * getDx[i])])
    ELSE Table([i \in Args |->
               CeilRoot(DP2CUTOFF8 * hill.sigma[i] * hill.sigma[i],
                        4 * getDx[i] * getDx[i])])

(* The steps of MetaD::addGaussian in Grid mode on one process of comm.
   neighbors: the vector BiasGrid_->getNeighbors returns, in grid order *)
NeighborVector(hill) ==
    LET nb == Grid_getNeighbors(hill.center, getGaussianSupport(hill))
    IN [i \in 1 .. Cardinality(nb) |->
          CHOOSE p \in nb :
             Cardinality({q \in nb : q[2] < p[2] \/ (q[2] = p[2] /\ q[1] <= p[1])}) = i]

(* "vector<double> allbias(neighbors.size(),0.0)" and allder *)
ZeroBuffer(neighbors) == [i \in DOMAIN neighbors |-> [bias |-> 0, der |-> ZeroDer]]

(* A loop in which every process evaluates every neighbour *)
FillBufferAll(rank, stride, hill, neighbors) ==
    [i \in DOMAIN neighbors |-> evaluateGaussian(neighbors[i], hill)]

(* "for(unsigned i=rank;i<neighbors.size();i+=stride)": allbias and allder of
   process rank when its loop ends *)
FillBuffer(rank, stride, hill, neighbors) ==
    [i \in DOMAIN neighbors |->
        IF (i - 1) % stride = rank THEN evaluateGaussian(neighbors[i], hill)
        ELSE [bias |-> 0, der |-> ZeroDer]]

(* comm.Sum of allbias and of allder: the buffer every process holds after it *)
SumBuffers(bufs, stride, neighbors) ==
    [i \in DOMAIN neighbors |->
        [bias |-> SumOver(0 .. (stride - 1),
                          [rank \in 0 .. (stride - 1) |-> bufs[rank][i].bias]),
         der |-> [j \in Args |->
                    SumOver(0 .. (stride - 1),
                            [rank \in 0 .. (stride - 1) |-> bufs[rank][i].der[j]])]]]

(* The last loop: addValueAndDerivatives of every neighbour from the buffer *)
ApplyBuffer(grid, neighbors, buf) ==
    [p \in GridPoints |->
        IF \E i \in DOMAIN neighbors : neighbors[i] = p
        THEN LET i == CHOOSE k \in DOMAIN neighbors : neighbors[k] = p
             IN Grid_addValueAndDerivatives(grid[p], buf[i].bias, buf[i].der)
        ELSE grid[p]]

(* The loop of a single process: evaluateGaussian and addValueAndDerivatives
   of every neighbour *)
ApplyDirect(grid, neighbors, hill) ==
    [p \in GridPoints |->
        IF \E i \in DOMAIN neighbors : neighbors[i] = p
        THEN Grid_addValueAndDerivatives(grid[p], evaluateGaussian(p, hill).bias,
                                         evaluateGaussian(p, hill).der)
        ELSE grid[p]]

(* A list that takes the new hill at its front *)
addGaussianListFront(hills, hill) == <<hill>> \o hills

(* MetaD::addGaussian, List mode *)
addGaussianList(hills, hill) == Append(hills, hill)

(* MetaD::addGaussian, Grid mode: every process evaluates its share of the
   neighbours into allbias and allder, comm.Sum adds the buffers of all the
   processes, and the sums go to the grid *)
addGaussianGrid(grid, hill) ==
    LET nneighb == getGaussianSupport(hill)
        neighbors == Grid_getNeighbors(hill.center, nneighb)
        \* the position of grid point p in the vector of neighbours
        at(p) == Cardinality({q \in neighbors :
                     q[2] < p[2] \/ (q[2] = p[2] /\ q[1] <= p[1])})
        \* "rank+stride*k": the neighbours that process rank evaluates
        mine(rank, i) == (i - 1) % NProcs = rank
        \* comm.Sum: the sum of the buffers of the processes 0 .. NProcs-1
        commSum(f) == SumTo(NProcs, [k \in 1 .. NProcs |-> f[k - 1]])
    IN Table([p \in GridPoints |->
          LET cell == grid[p]
          IN IF p \in neighbors
             THEN LET e == evaluateGaussian(p, hill)
                      i == at(p)
                      allbias == IF NProcs = 1 THEN e.bias
                                 ELSE commSum([rank \in 0 .. (NProcs - 1) |->
                                        IF mine(rank, i) THEN e.bias ELSE 0])
                      allder == IF NProcs = 1 THEN e.der
                                ELSE [j \in Args |->
                                        commSum([rank \in 0 .. (NProcs - 1) |->
                                           IF mine(rank, i) THEN e.der[j] ELSE 0])]
                  IN Grid_addValueAndDerivatives(cell, allbias, allder)
             ELSE cell])

-----------------------------------------------------------------------------
(* MetaD::getBiasAndDerivatives: the bias and its derivatives at cv *)

(* Every process evaluates every hill *)
ShardAll(rank, stride, n) == 1 .. n

(* "for(unsigned i=rank;i<hills_.size();i+=stride)": the hills, counted from
   1, that process rank of stride processes evaluates *)
Shard(rank, stride, n) == {i \in 1 .. n : (i - 1) % stride = rank}

(* bias and der[j] of process rank when its loop ends, der zero at the call *)
PartialBias(rank, stride, cv, hills) ==
    SumOver(Shard(rank, stride, Len(hills)),
            [i \in DOMAIN hills |-> evaluateGaussian(cv, hills[i]).bias])
PartialDer(rank, stride, cv, hills, j) ==
    SumOver(Shard(rank, stride, Len(hills)),
            [i \in DOMAIN hills |-> evaluateGaussian(cv, hills[i]).der[j]])

(* comm.Sum of bias and of der over the processes 0 .. stride-1: what every
   one of them holds afterwards *)
ListBiasAndDerivatives(stride, cv, hills) ==
    [bias |-> SumOver(0 .. (stride - 1),
                      [rank \in 0 .. (stride - 1) |-> PartialBias(rank, stride, cv, hills)]),
     der |-> [j \in Args |->
                SumOver(0 .. (stride - 1),
                        [rank \in 0 .. (stride - 1) |->
                            PartialDer(rank, stride, cv, hills, j)])]]

getBiasAndDerivatives(cv, hills, grid) ==
    IF ~grid_
    THEN ListBiasAndDerivatives(NProcs, cv, hills)
    ELSE [bias |-> Grid_getValueAndDerivatives(grid, cv).bias,
          der |-> IF inInterval(cv) THEN Grid_getValueAndDerivatives(grid, cv).der
                  ELSE ZeroDer]

(* MetaD::getHeight *)
welltemp_ == biasf_ > 1

(* A height that does not look at the bias *)
getHeightFlat(cv, hills, grid) == height0_

getHeight(cv, hills, grid) ==
    IF welltemp_
    THEN LET vbias == getBiasAndDerivatives(cv, hills, grid).bias
         IN (height0_ * ExpNeg8(8 * vbias, KbT * (biasf_ - 1))) \div ExpOne
    ELSE height0_

(* An addGaussian that keeps the hill in the list in Grid mode too *)
addGaussianKeep(acc, hill) ==
    [hills |-> addGaussianList(acc.hills, hill),
     grid |-> IF ~grid_ THEN acc.grid ELSE addGaussianGrid(acc.grid, hill),
     all |-> Append(acc.all, hill)]

(* MetaD::addGaussian on the accumulator [hills, grid]; the field all is
   history: every hill handed to addGaussian, in order *)
addGaussian(acc, hill) ==
    [hills |-> IF ~grid_ THEN addGaussianList(acc.hills, hill) ELSE acc.hills,
     grid |-> IF ~grid_ THEN acc.grid ELSE addGaussianGrid(acc.grid, hill),
     all |-> Append(acc.all, hill)]

-----------------------------------------------------------------------------
(* The hills file.  A record is one line of fields; the width fields are kept
   with their names, in the order written *)

NSigma(multivariate) ==
    IF multivariate
    THEN (getNumberOfArguments * (getNumberOfArguments + 1)) \div 2
    ELSE getNumberOfArguments

(* "loop in band form": the k-th width field of a multivariate record is
   lower(j + i, j), with i the band and j the column *)
BandOf(k) ==
    CHOOSE ij \in (0 .. (getNumberOfArguments - 1)) \X Args :
        /\ ij[2] <= getNumberOfArguments - ij[1]
        /\ k = ij[1] * getNumberOfArguments - (ij[1] * (ij[1] - 1)) \div 2 + ij[2]
BandName(k) == <<"sigma", ArgNames[BandOf(k)[2] + BandOf(k)[1]], ArgNames[BandOf(k)[2]]>>
DiagName(i) == <<"sigma", ArgNames[i]>>

(* A writer that prints the height as stored, without the well-tempered
   scaling *)
writeGaussianUnscaled(hill, t) ==
    LET mymatrix == Recompose(hill.sigma)
        inverted == Invert(mymatrix)
        invmatrix == Table([i, j \in Args |->
                              IF i <= j THEN inverted[j, i] ELSE inverted[i, j]])
        lower == cholesky(invmatrix)
    IN [time |-> t,
        center |-> hill.center,
        multivariate |-> IF hill.multivariate THEN "true" ELSE "false",
        sigma |-> IF hill.multivariate
                  THEN [k \in 1 .. NSigma(TRUE) |->
                          [name |-> BandName(k),
                           val |-> lower[BandOf(k)[2] + BandOf(k)[1], BandOf(k)[2]]]]
                  ELSE [i \in Args |-> [name |-> DiagName(i), val |-> hill.sigma[i]]],
        height |-> hill.height,
        biasf |-> biasf_,
        clock |-> mw_n_ > 1]

(* MetaD::writeGaussian: the record printed for hill at step t *)
writeGaussian(hill, t) ==
    LET mymatrix == Recompose(hill.sigma)
        inverted == Invert(mymatrix)
        invmatrix == Table([i, j \in Args |->
                              IF i <= j THEN inverted[j, i] ELSE inverted[i, j]])
        lower == cholesky(invmatrix)
    IN [time |-> t,
        center |-> hill.center,
        multivariate |-> IF hill.multivariate THEN "true" ELSE "false",
        sigma |-> IF hill.multivariate
                  THEN [k \in 1 .. NSigma(TRUE) |->
                          [name |-> BandName(k),
                           val |-> lower[BandOf(k)[2] + BandOf(k)[1], BandOf(k)[2]]]]
                  ELSE [i \in Args |-> [name |-> DiagName(i), val |-> hill.sigma[i]]],
        height |-> IF welltemp_ THEN (hill.height * biasf_) \div (biasf_ - 1)
                   ELSE hill.height,
        biasf |-> biasf_,
        clock |-> mw_n_ > 1]

(* IFile::scanField by name, on the width fields of a record *)
scanField(rec, name) ==
    (CHOOSE k \in DOMAIN rec.sigma : rec.sigma[k].name = name)
hasField(rec, name) == \E k \in DOMAIN rec.sigma : rec.sigma[k].name = name

(* A constructor whose interval block leaves spline alone *)
splineKept(in) == ~in.GRID_NOSPLINE

(* The local spline of the constructor when the grid is built:
   "bool spline=!nospline;" and, with the interval correction,
   "spline=false;" *)
spline(in) ==
    IF in.UPPER_INTERVAL # in.LOWER_INTERVAL THEN FALSE ELSE ~in.GRID_NOSPLINE

(* The first message of a sequence of checks, "" when every check passes *)
firstError(checks) ==
    IF \A i \in DOMAIN checks : checks[i] = "" THEN ""
    ELSE checks[CHOOSE i \in DOMAIN checks :
                   checks[i] # "" /\ \A j \in 1 .. (i - 1) : checks[j] = ""]

(* The periodicity of an argument: its domain, or none *)
NotPeriodic == <<>>
Domains == {NotPeriodic, <<"-pi", "pi">>, <<"0", "2pi">>}

(* MetaD::scanOneHill, the check of each argument after its field is
   scanned: filePeriod is what the min_ and max_ fields of the file give
   tmpvalues[i], argPeriod what getPntrToArgument(i) has *)
periodicityError(filePeriod, argPeriod) ==
    firstError([i \in Args |->
        IF filePeriod[i] # NotPeriodic /\ argPeriod[i] = NotPeriodic
        THEN "in hills file periodicity for variable does not match periodicity in input"
        ELSE IF filePeriod[i] # NotPeriodic
        THEN IF filePeriod[i][1] # argPeriod[i][1] \/ filePeriod[i][2] # argPeriod[i][2]
             THEN "in hills file periodicity for variable does not match periodicity in input"
             ELSE ""
        ELSE ""])

(* A scan that packs the product of the factors without inverting it *)
scanOneHillNoInvert(rec, sigma) ==
    LET multivariate == rec.multivariate = "true"
        lower == Table([i, j \in Args |->
                    IF i >= j /\ hasField(rec, <<"sigma", ArgNames[i], ArgNames[j]>>)
                    THEN rec.sigma[scanField(rec, <<"sigma", ArgNames[i], ArgNames[j]>>)].val
                    ELSE 0])
        upper == Table([i, j \in Args |-> lower[j, i]])
        mymult == mult(lower, upper)
    IN [center |-> rec.center,
        sigma |-> IF multivariate
                  THEN Table([k \in 1 .. NSigma(TRUE) |->
                          LET ij == CHOOSE p \in Args \X Args :
                                       p[1] <= p[2] /\ Packed(p[1], p[2]) = k
                          IN mymult[ij[1], ij[2]]])
                  ELSE Table([k \in DOMAIN sigma |->
                          IF k <= getNumberOfArguments
                          THEN rec.sigma[scanField(rec, DiagName(k))].val
                          ELSE sigma[k]]),
        height |-> rec.height,
        multivariate |-> multivariate]

(* MetaD::scanOneHill on one record; sigma is the caller's vector, which the
   scan resizes and fills in place *)
scanOneHill(rec, sigma) ==
    LET multivariate == rec.multivariate = "true"
        lower == Table([i, j \in Args |->
                    IF i >= j /\ hasField(rec, <<"sigma", ArgNames[i], ArgNames[j]>>)
                    THEN rec.sigma[scanField(rec, <<"sigma", ArgNames[i], ArgNames[j]>>)].val
                    ELSE 0])
        upper == Table([i, j \in Args |-> lower[j, i]])
        mymult == mult(lower, upper)
        invmatrix == Invert(mymult)
    IN [center |-> rec.center,
        sigma |-> IF multivariate
                  THEN Table([k \in 1 .. NSigma(TRUE) |->
                          LET ij == CHOOSE p \in Args \X Args :
                                       p[1] <= p[2] /\ Packed(p[1], p[2]) = k
                          IN invmatrix[ij[1], ij[2]]])
                  ELSE Table([k \in DOMAIN sigma |->
                          IF k <= getNumberOfArguments
                          THEN rec.sigma[scanField(rec, DiagName(k))].val
                          ELSE sigma[k]]),
        height |-> rec.height,
        multivariate |-> multivariate]

(* A reader that takes the height of the record as it is *)
scannedHillUnscaled(rec, sigma) ==
    LET h == scanOneHill(rec, sigma)
    IN [hill |-> Gaussian(h.center, h.sigma, h.height, h.multivariate),
        sigma |-> h.sigma]

(* A reader that scales the height by the bias factor of the record *)
scannedHillRecordBiasf(rec, sigma) ==
    LET h == scanOneHill(rec, sigma)
        height == IF rec.biasf > 1 THEN (h.height * (rec.biasf - 1)) \div rec.biasf
                  ELSE h.height
    IN [hill |-> Gaussian(h.center, h.sigma, height, h.multivariate),
        sigma |-> h.sigma]

(* The body of the loop of MetaD::readGaussians: the hill built from one
   record, and the caller's width vector after the scan *)
scannedHill(rec, sigma) ==
    LET h == scanOneHill(rec, sigma)
        height == IF welltemp_ THEN (h.height * (biasf_ - 1)) \div biasf_
                  ELSE h.height
    IN [hill |-> Gaussian(h.center, h.sigma, height, h.multivariate),
        sigma |-> h.sigma]

(* MetaD::readGaussians: scan the records after position pos and add each *)
RECURSIVE readLoop(_, _, _, _)
readLoop(acc, recs, k, sigma) ==
    IF k > Len(recs) THEN acc
    ELSE LET s == scannedHill(recs[k], sigma)
         IN readLoop(addGaussian(acc, s.hill), recs, k + 1, s.sigma)

(* A reader that loses the first record after the cursor *)
readGaussiansSkip(acc, recs, pos) ==
    readLoop(acc, recs, pos + 2, [i \in Args |-> 0])

readGaussians(acc, recs, pos) ==
    readLoop(acc, recs, pos + 1, [i \in Args |-> 0])

-----------------------------------------------------------------------------
(* The plumed input: the keywords of the METAD line as the constructor parses
   them.  A vector keyword that is absent is the empty vector, UPPER_INTERVAL
   and LOWER_INTERVAL that are absent are -1, BIASFACTOR that is absent is 1,
   TEMP, GRID_WSTRIDE that are absent are 0, GRID_WFILE that is absent is "" *)

(* The input of a run with the members the model runs *)
InputOf(adaptive, biasf, grid, wgridstride, mw_n) ==
    [ADAPTIVE |-> adaptive,
     SIGMA |-> IF adaptive = "NONE" THEN sigma0_ ELSE <<1>>,
     HEIGHT |-> height0_,
     PACE |-> stride_,
     BIASFACTOR |-> biasf,
     TEMP |-> 300,
     GRID_MIN |-> IF grid THEN gmin ELSE <<>>,
     GRID_MAX |-> IF grid THEN gmax ELSE <<>>,
     GRID_BIN |-> IF grid THEN <<3, 1>> ELSE <<>>,
     GRID_WSTRIDE |-> wgridstride,
     GRID_NOSPLINE |-> FALSE,
     GRID_WFILE |-> IF grid /\ wgridstride > 0 THEN "GRID" ELSE "",
     WALKERS_N |-> mw_n,
     UPPER_INTERVAL |-> 0 - 1,
     LOWER_INTERVAL |-> 0 - 1]

(* A constructor that takes any HEIGHT *)
heightErrorNone(in) == ""

(* A constructor that takes BIASFACTOR without TEMP *)
tempErrorNone(in) == ""

(* A constructor that takes any number of SIGMA values *)
sigmaErrorNone(in) == ""

(* The checks of the constructor, each the message of its error() or "" *)
adaptiveError(in) ==
    IF in.ADAPTIVE \notin {"GEOM", "DIFF", "NONE"}
    THEN "I do not know this type of adaptive scheme"
    ELSE ""
sigmaError(in) ==
    IF in.ADAPTIVE = "NONE"
    THEN IF Len(in.SIGMA) # getNumberOfArguments
         THEN "number of arguments does not match number of SIGMA parameters"
         ELSE ""
    ELSE IF Len(in.SIGMA) # 1
         THEN "If you choose ADAPTIVE you need only one sigma"
         ELSE ""
heightError(in) ==
    IF in.HEIGHT <= 0 THEN "error cannot add zero height or negative height hills"
    ELSE ""
paceError(in) ==
    IF in.PACE <= 0 THEN "frequency for hill addition is nonsensical" ELSE ""
biasfError(in) ==
    IF in.BIASFACTOR < 1 THEN "well tempered bias factor is nonsensical" ELSE ""
tempError(in) ==
    IF in.BIASFACTOR > 1 /\ in.TEMP = 0
    THEN "if you are doing well tempered metadynamics you must specify the temperature"
    ELSE ""
(* A constructor that takes any GRID_MIN, GRID_MAX and GRID_BIN *)
gridErrorNone(in) == ""

gridError(in) ==
    IF Len(in.GRID_MIN) # getNumberOfArguments /\ Len(in.GRID_MIN) # 0
    THEN "not enough values for GRID_MIN"
    ELSE IF Len(in.GRID_MAX) # getNumberOfArguments /\ Len(in.GRID_MAX) # 0
    THEN "not enough values for GRID_MAX"
    ELSE IF Len(in.GRID_BIN) # getNumberOfArguments /\ Len(in.GRID_BIN) # 0
    THEN "not enough values for GRID_BIN"
    ELSE IF Len(in.GRID_MIN) # Len(in.GRID_MAX) \/ Len(in.GRID_MIN) # Len(in.GRID_BIN)
    THEN "GRID MIN was specified without either GRID_MAX or GRID_BIN"
    ELSE ""
(* "if(gbin.size()>0){grid_=true;}" *)
gridGiven(in) == Len(in.GRID_BIN) > 0
gridFileError(in) ==
    IF gridGiven(in) /\ in.GRID_WFILE # "" /\ in.GRID_WSTRIDE = 0
    THEN "frequency with which to output grid not specified use GRID_WSTRIDE"
    ELSE IF gridGiven(in) /\ in.GRID_WSTRIDE > 0 /\ in.GRID_WFILE = ""
    THEN "grid filename not specified use GRID_WFILE"
    ELSE ""
walkersError(in, mw_id) ==
    IF in.WALKERS_N <= mw_id
    THEN "walker ID should be a numerical value less than the total number of walkers"
    ELSE ""
intervalError(in) ==
    IF in.UPPER_INTERVAL # in.LOWER_INTERVAL
    THEN IF Len(in.SIGMA) # 1
         THEN "Bias limits correction works only for monodimensional metadynamics!"
         ELSE IF in.UPPER_INTERVAL < in.LOWER_INTERVAL
         THEN "The Upper limit must be greater than the Lower limit!"
         ELSE ""
    ELSE ""

(* The checks in the order the constructor makes them, for walker mw_id *)
parseError(in, mw_id) ==
    firstError(<<adaptiveError(in), sigmaError(in), heightError(in), paceError(in),
                 biasfError(in), tempError(in), gridError(in), gridFileError(in),
                 walkersError(in, mw_id), intervalError(in)>>)

-----------------------------------------------------------------------------
(* The state after construction: no process runs and no hills file exists *)

NoAcc == [hills |-> <<>>, grid |-> IF grid_ THEN EmptyGrid ELSE NoGrid, all |-> <<>>]
Closed == [open |-> FALSE, pos |-> 0]
RefInit == [hills |-> <<>>, grid |-> NoGrid, all |-> <<>>, isFirstStep |-> TRUE,
            step |-> 0]
NoProbe == [op |-> "none"]

Init ==
    /\ mw_n_ \in WalkersN
    /\ grid_ \in BOOLEAN
    /\ biasf_ \in {1, 2}
    /\ wgridstride_ \in (IF grid_ THEN {2} ELSE {0, 2})
    /\ \E a \in {"NONE", "GEOM"} : adaptive_ = [r \in Walkers |-> a]
    /\ pc = [r \in Walkers |-> "none"]
    /\ step = 0
    /\ done = [r \in Walkers |-> FALSE]
    /\ isFirstStep = [r \in Walkers |-> TRUE]
    /\ hills_ = [r \in Walkers |-> <<>>]
    /\ BiasGrid_ = [r \in Walkers |-> NoGrid]
    /\ ifiles = [r \in Walkers |-> [i \in Walkers |-> Closed]]
    /\ files = [i \in Walkers |-> [exists |-> FALSE, recs |-> <<>>]]
    /\ gridfile = [r \in Walkers |-> NoGrid]
    /\ added = [r \in Walkers |-> <<>>]
    /\ origin = [r \in Walkers |-> <<>>]
    /\ lastPoll = [r \in Walkers |-> 0 - 1]
    /\ flexbin = [r \in Walkers |-> <<>>]
    /\ updated = [r \in Walkers |-> FALSE]
    /\ run = [r \in Walkers |-> 0]
    /\ ref = RefInit
    /\ input = InputOf(adaptive_[0], biasf_, grid_, wgridstride_, mw_n_)
    /\ error = ""
    /\ probe = NoProbe

Tags(i, from, to) ==
    [k \in 1 .. (to - from + 1) |-> [src |-> i, idx |-> from + k - 1, local |-> FALSE]]

-----------------------------------------------------------------------------
(* A constructor that opens the files only when it restarts *)
RECURSIVE openAllOnRestart(_, _, _, _)
openAllOnRestart(r, restart, i, w) ==
    IF i >= mw_n_ THEN w
    ELSE IF files[i].exists /\ restart
    THEN LET recs == files[i].recs
         IN openAllOnRestart(r, restart, i + 1,
               [acc |-> readGaussians(w.acc, recs, 0),
                ifiles |-> [w.ifiles EXCEPT ![i] =
                              IF i = r THEN Closed
                              ELSE [open |-> TRUE, pos |-> Len(recs)]],
                origin |-> w.origin \o Tags(i, 1, Len(recs))])
    ELSE openAllOnRestart(r, restart, i + 1, w)

(* MetaD::MetaD, from "open all files at the beginning and read Gaussians if
   restarting": walker r handles the files 0 .. mw_n_-1 in order.  w is
   [acc, ifiles, origin] so far *)

RECURSIVE openAll(_, _, _, _)
openAll(r, restart, i, w) ==
    IF i >= mw_n_ THEN w
    ELSE IF files[i].exists
    THEN LET recs == files[i].recs
             acc1 == IF restart THEN readGaussians(w.acc, recs, 0) ELSE w.acc
             pos1 == IF restart THEN Len(recs) ELSE 0
         IN openAll(r, restart, i + 1,
               [acc |-> acc1,
                ifiles |-> [w.ifiles EXCEPT ![i] =
                              IF i = r THEN Closed ELSE [open |-> TRUE, pos |-> pos1]],
                origin |-> IF restart THEN w.origin \o Tags(i, 1, Len(recs))
                           ELSE w.origin])
    ELSE openAll(r, restart, i + 1, w)

(* The state of walker r when its constructor returns *)
Constructed(r, w) ==
    /\ pc' = [pc EXCEPT ![r] = "run"]
    /\ done' = [done EXCEPT ![r] = FALSE]
    /\ isFirstStep' = [isFirstStep EXCEPT ![r] = TRUE]
    /\ hills_' = [hills_ EXCEPT ![r] = w.acc.hills]
    /\ BiasGrid_' = [BiasGrid_ EXCEPT ![r] = w.acc.grid]
    /\ ifiles' = [ifiles EXCEPT ![r] = w.ifiles]
    /\ files' = [files EXCEPT ![r].exists = TRUE]
    /\ added' = [added EXCEPT ![r] = w.acc.all]
    /\ origin' = [origin EXCEPT ![r] = w.origin]
    /\ lastPoll' = [lastPoll EXCEPT ![r] = 0 - 1]
    /\ flexbin' = [flexbin EXCEPT ![r] = <<>>]
    /\ updated' = [updated EXCEPT ![r] = FALSE]
    /\ run' = [run EXCEPT ![r] = @ + 1]
    /\ UNCHANGED <<mw_n_, grid_, biasf_, wgridstride_, step, gridfile, input, error,
                   probe>>

(* The constructor of walker r: w is what the loop over the hills files
   leaves, [acc, ifiles, origin] *)
Construct(r, restart) ==
    Constructed(r, openAll(r, restart, 0,
                           [acc |-> NoAcc, ifiles |-> [i \in Walkers |-> Closed],
                            origin |-> <<>>]))

(* A fresh start of walker r: plumed.getRestart() is false, its engine starts
   at the current step *)
Start(r) ==
    /\ r < mw_n_
    /\ pc[r] = "none"
    /\ Construct(r, FALSE)
    /\ UNCHANGED adaptive_
    /\ ref' = IF mw_n_ = 1
              THEN [RefInit EXCEPT !.grid = NoAcc.grid, !.step = step]
              ELSE ref

Restarts == run[0] + run[1] - Cardinality({r \in Walkers : run[r] > 0})

(* The process of walker r ends after its update() of this step and a new one
   is built with plumed.getRestart() true; its engine resumes at the step it
   stopped at, so the new process's first update() is for this step again *)
Restart(r) ==
    /\ pc[r] = "run"
    /\ done[r]
    /\ Restarts < MaxRestarts
    /\ Construct(r, TRUE)
    /\ UNCHANGED <<adaptive_, ref>>

(* The same with an input file that has the other ADAPTIVE setting *)
RestartOther(r) ==
    /\ pc[r] = "run"
    /\ done[r]
    /\ Restarts < MaxRestarts
    /\ Construct(r, TRUE)
    /\ adaptive_' = [adaptive_ EXCEPT ![r] = IF @ = "NONE" THEN "GEOM" ELSE "NONE"]
    /\ UNCHANGED ref

-----------------------------------------------------------------------------
(* MetaD::update *)

(* The criterion without the first-step guard *)
nowAddAHillNoGuard(getStep, first) == getStep % stride_ = 0

(* "adding hills criteria" *)
nowAddAHill(getStep, first) == getStep % stride_ = 0 /\ ~first

(* An update() that calls the FlexibleBin on deposition steps only *)
flexbinCallsOnDeposit(adaptive, add) ==
    IF adaptive # "NONE" /\ add
    THEN <<[call |-> "update", nowAddAHill |-> add], [call |-> "getInverseMatrix"]>>
    ELSE <<>>

(* The calls of update() on flexbin: "if you use adaptive, call the
   FlexibleBin", and getInverseMatrix when a hill is added *)
flexbinCalls(adaptive, add) ==
    IF adaptive # "NONE"
    THEN <<[call |-> "update", nowAddAHill |-> add]>>
         \o (IF add THEN <<[call |-> "getInverseMatrix"]>> ELSE <<>>)
    ELSE <<>>

(* The width handed to the new hill: FlexibleBin's matrix or sigma0_ *)
thissigma(adaptive, flex) == IF adaptive # "NONE" THEN flex ELSE sigma0_

(* The height computed after the hill is already in the accumulator *)
DepositHeightAfter(acc, cv, sigma, multivariate) ==
    LET first == addGaussian(acc, Gaussian(cv, sigma, height0_, multivariate))
        height == getHeight(cv, first.hills, first.grid)
        newhill == Gaussian(cv, sigma, height, multivariate)
    IN [acc |-> addGaussian(acc, newhill), hill |-> newhill]

(* "add a Gaussian": the height, the new hill, addGaussian *)
Deposit(acc, cv, sigma, multivariate) ==
    LET height == getHeight(cv, acc.hills, acc.grid)
        newhill == Gaussian(cv, sigma, height, multivariate)
    IN [acc |-> addGaussian(acc, newhill), hill |-> newhill]

(* "dump grid on file" *)
nowDumpGrid(getStep) == wgridstride_ > 0 /\ getStep % wgridstride_ = 0

(* "if multiple walkers and time to read Gaussians" *)
nowReadWalkers(getStep) == mw_n_ > 1 /\ getStep % mw_rstride_ = 0

(* A poll that skips no file *)
isOwnFileNever(r, i) == FALSE

(* "don't read your own Gaussians" *)
isOwnFile(r, i) == i = r

(* A poll that reads an open file from its start every time *)
readWalkerRescan(r, i, w) ==
    IF isOwnFile(r, i) THEN w
    ELSE IF ~w.ifiles[i].open
    THEN IF files[i].exists
         THEN [w EXCEPT !.ifiles[i] = [open |-> TRUE, pos |-> 0]]
         ELSE w
    ELSE [acc |-> readGaussians(w.acc, files[i].recs, 0),
          ifiles |-> [w.ifiles EXCEPT ![i].pos = Len(files[i].recs)],
          origin |-> w.origin \o Tags(i, 1, Len(files[i].recs))]

(* A poll that opens a file without checking that it exists *)
readWalkerOpenBlind(r, i, w) ==
    IF isOwnFile(r, i) THEN w
    ELSE IF ~w.ifiles[i].open
    THEN [w EXCEPT !.ifiles[i] = [open |-> TRUE, pos |-> 0]]
    ELSE [acc |-> readGaussians(w.acc, files[i].recs, w.ifiles[i].pos),
          ifiles |-> [w.ifiles EXCEPT ![i].pos = Len(files[i].recs)],
          origin |-> w.origin \o Tags(i, w.ifiles[i].pos + 1, Len(files[i].recs))]

(* A poll that reads a file in the pass that opens it *)
readWalkerOpenRead(r, i, w) ==
    IF isOwnFile(r, i) THEN w
    ELSE IF ~w.ifiles[i].open /\ ~files[i].exists THEN w
    ELSE [acc |-> readGaussians(w.acc, files[i].recs, w.ifiles[i].pos),
          ifiles |-> [w.ifiles EXCEPT ![i] = [open |-> TRUE, pos |-> Len(files[i].recs)]],
          origin |-> w.origin \o Tags(i, w.ifiles[i].pos + 1, Len(files[i].recs))]

(* One pass of the loop over the hills files, for file i: w is
   [acc, ifiles, origin] of walker r so far *)
readWalker(r, i, w) ==
    IF isOwnFile(r, i) THEN w
    ELSE IF ~w.ifiles[i].open
    THEN IF files[i].exists
         THEN [w EXCEPT !.ifiles[i] = [open |-> TRUE, pos |-> 0]]
         ELSE w
    ELSE [acc |-> readGaussians(w.acc, files[i].recs, w.ifiles[i].pos),
          ifiles |-> [w.ifiles EXCEPT ![i].pos = Len(files[i].recs)],
          origin |-> w.origin \o Tags(i, w.ifiles[i].pos + 1, Len(files[i].recs))]

RECURSIVE readWalkers(_, _, _)
readWalkers(r, i, w) ==
    IF i >= mw_n_ THEN w ELSE readWalkers(r, i + 1, readWalker(r, i, w))

(* The uninterrupted run takes the engine step t with the same inputs *)
RefUpdate(t, cv, flex) ==
    IF mw_n_ = 1 /\ t >= ref.step
    THEN LET add == nowAddAHill(t, ref.isFirstStep)
             dep == Deposit([hills |-> ref.hills, grid |-> ref.grid, all |-> ref.all],
                            cv, thissigma(adaptive_[0], flex), adaptive_[0] # "NONE")
         IN [ref EXCEPT !.hills = IF add THEN dep.acc.hills ELSE @,
                        !.grid = IF add THEN dep.acc.grid ELSE @,
                        !.all = IF add THEN dep.acc.all ELSE @,
                        !.isFirstStep = IF add THEN @ ELSE FALSE,
                        !.step = t + 1]
    ELSE ref

(* The accumulator of walker r *)
Acc(r) == [hills |-> hills_[r], grid |-> BiasGrid_[r], all |-> added[r]]

(* The end of update(): add says whether a hill was added, dep is the deposit,
   acc1 the accumulator after it and w2 what the poll leaves *)
Updated(r, cv, flex, add, dep, acc1, w2) ==
    /\ isFirstStep' = [isFirstStep EXCEPT ![r] = IF add THEN @ ELSE FALSE]
    /\ files' = IF add
                THEN [files EXCEPT ![r].recs = Append(@, writeGaussian(dep.hill, step))]
                ELSE files
    /\ gridfile' = IF nowDumpGrid(step) /\ grid_
                   THEN [gridfile EXCEPT ![r] = acc1.grid]
                   ELSE gridfile
    /\ pc' = IF nowDumpGrid(step) /\ ~grid_ THEN [pc EXCEPT ![r] = "crashed"] ELSE pc
    /\ hills_' = [hills_ EXCEPT ![r] = w2.acc.hills]
    /\ BiasGrid_' = [BiasGrid_ EXCEPT ![r] = w2.acc.grid]
    /\ added' = [added EXCEPT ![r] = w2.acc.all]
    /\ origin' = [origin EXCEPT ![r] = w2.origin]
    /\ ifiles' = [ifiles EXCEPT ![r] = w2.ifiles]
    /\ lastPoll' = IF nowReadWalkers(step) /\ ~(nowDumpGrid(step) /\ ~grid_)
                   THEN [lastPoll EXCEPT ![r] = step]
                   ELSE lastPoll
    /\ flexbin' = [flexbin EXCEPT ![r] = flexbinCalls(adaptive_[r], add)]
    /\ updated' = [updated EXCEPT ![r] = TRUE]
    /\ done' = [done EXCEPT ![r] = TRUE]
    /\ ref' = RefUpdate(step, cv, flex)
    /\ UNCHANGED <<mw_n_, grid_, biasf_, wgridstride_, adaptive_, step, run, input,
                   error, probe>>

(* The poll of update(): w1 is [acc, ifiles, origin] after the deposit; a
   List run that dumps its grid has stopped before the poll *)
Polled(r, w1) ==
    IF nowReadWalkers(step) /\ ~(nowDumpGrid(step) /\ ~grid_)
    THEN readWalkers(r, 0, w1)
    ELSE w1

(* The deposit of update(), from its outcome dep when add holds *)
Deposited(r, cv, flex, add, dep, acc1) ==
    Updated(r, cv, flex, add, dep, acc1,
            Polled(r, [acc |-> acc1, ifiles |-> ifiles[r],
                       origin |-> IF add
                                  THEN Append(origin[r],
                                              [src |-> r, idx |-> Len(files[r].recs) + 1,
                                               local |-> TRUE])
                                  ELSE origin[r]]))

(* The accumulator after "add a Gaussian" *)
UpdateAdding(r, cv, flex, add, dep) ==
    Deposited(r, cv, flex, add, dep, IF add THEN dep.acc ELSE Acc(r))

(* update() of walker r with the CV value cv and FlexibleBin's matrix flex *)
UpdateWith(r, cv, flex) ==
    UpdateAdding(r, cv, flex, nowAddAHill(step, isFirstStep[r]),
                 Deposit(Acc(r), cv, thissigma(adaptive_[r], flex), adaptive_[r] # "NONE"))

(* One update() of walker r for the current step; the CV value and
   FlexibleBin's matrix matter only when a hill is added *)
Update(r) ==
    /\ pc[r] = "run"
    /\ ~done[r]
    /\ LET needed == \/ nowAddAHill(step, isFirstStep[r])
                     \/ (mw_n_ = 1 /\ step >= ref.step
                         /\ nowAddAHill(step, ref.isFirstStep))
       IN \E cv \in (IF needed THEN CVs ELSE {CHOOSE c \in CVs : TRUE}),
             flex \in (IF needed THEN FlexOut ELSE {CHOOSE f \in FlexOut : TRUE}) :
             UpdateWith(r, cv, flex)

(* The engines go to the next step once every running walker has updated *)
NextStep ==
    /\ step < MaxStep
    /\ \A r \in Walkers : pc[r] = "run" => done[r]
    /\ step' = step + 1
    /\ done' = [r \in Walkers |-> FALSE]
    /\ UNCHANGED <<mw_n_, grid_, biasf_, wgridstride_, pc, adaptive_, isFirstStep,
                   hills_, BiasGrid_, ifiles, files, gridfile, added, origin,
                   lastPoll, flexbin, updated, run, ref, input, error, probe>>

Next == NextStep \/ \E r \in Walkers : Start(r) \/ Restart(r) \/ Update(r)

Spec == Init /\ [][Next]_vars

(* The runs of two List walkers in which a restart may change ADAPTIVE *)
InitLog == Init /\ mw_n_ = 2 /\ ~grid_ /\ wgridstride_ = 0
NextLog == NextStep \/ \E r \in Walkers : Start(r) \/ RestartOther(r) \/ Update(r)
SpecLog == InitLog /\ [][NextLog]_vars

-----------------------------------------------------------------------------
(* No step was made, no hills file exists and no process has an accumulator *)
NoRun ==
    /\ step = 0
    /\ done = [r \in Walkers |-> FALSE]
    /\ isFirstStep = [r \in Walkers |-> TRUE]
    /\ hills_ = [r \in Walkers |-> <<>>]
    /\ BiasGrid_ = [r \in Walkers |-> NoGrid]
    /\ ifiles = [r \in Walkers |-> [i \in Walkers |-> Closed]]
    /\ files = [i \in Walkers |-> [exists |-> FALSE, recs |-> <<>>]]
    /\ gridfile = [r \in Walkers |-> NoGrid]
    /\ added = [r \in Walkers |-> <<>>]
    /\ origin = [r \in Walkers |-> <<>>]
    /\ lastPoll = [r \in Walkers |-> 0 - 1]
    /\ flexbin = [r \in Walkers |-> <<>>]
    /\ updated = [r \in Walkers |-> FALSE]
    /\ run = [r \in Walkers |-> 0]
    /\ ref = RefInit

(* One hill written by writeGaussian and the file read by readGaussians, as
   a run with its own arguments does it.  The hills: isotropic ones, and
   full-covariance ones with the packed inverse covariance of the
   covariance L L^T, L the unit lower factor with the entry a below the
   diagonal *)
FileHills ==
    {Gaussian(c, sigma0_, h, FALSE) : c \in CVs, h \in {height0_, height0_ \div 2}}
    \cup {Gaussian(c, <<a * a + 1, 0 - a, 1>>, h, TRUE) :
             c \in CVs, h \in {height0_, height0_ \div 2}, a \in (0 - 2) .. 2}

InitFile ==
    /\ mw_n_ \in WalkersN
    /\ grid_ = FALSE
    /\ biasf_ \in {1, 2}
    /\ wgridstride_ = 0
    /\ adaptive_ = [r \in Walkers |-> "NONE"]
    /\ input = InputOf("NONE", biasf_, grid_, wgridstride_, mw_n_)
    /\ error = ""
    /\ pc = [r \in Walkers |-> "none"]
    /\ NoRun
    /\ probe \in [op : {"hill"}, hill : FileHills,
                  filePeriod : [Args -> Domains], argPeriod : [Args -> Domains]]

(* MetaD::writeGaussian of the hill, to a file whose header has the
   periodicity of the writer's arguments *)
WriteHill ==
    /\ probe.op = "hill"
    /\ probe' = [op |-> "file", hill |-> probe.hill, filePeriod |-> probe.filePeriod,
                 argPeriod |-> probe.argPeriod, rec |-> writeGaussian(probe.hill, step)]
    /\ UNCHANGED <<mw_n_, grid_, biasf_, wgridstride_, pc, adaptive_, step, done,
                   isFirstStep, hills_, BiasGrid_, ifiles, files, gridfile, added,
                   origin, lastPoll, flexbin, updated, run, ref, input, error>>

(* MetaD::readGaussians of the file by a run whose arguments have the
   periodicity argPeriod: error() of scanOneHill ends it, or the hills it
   hands to addGaussian are out *)
ReadFile ==
    /\ probe.op = "file"
    /\ IF periodicityError(probe.filePeriod, probe.argPeriod) # ""
       THEN /\ error' = periodicityError(probe.filePeriod, probe.argPeriod)
            /\ probe' = [op |-> "error", hill |-> probe.hill,
                         filePeriod |-> probe.filePeriod,
                         argPeriod |-> probe.argPeriod, rec |-> probe.rec,
                         out |-> <<>>]
       ELSE /\ error' = error
            /\ probe' = [op |-> "read", hill |-> probe.hill,
                         filePeriod |-> probe.filePeriod,
                         argPeriod |-> probe.argPeriod, rec |-> probe.rec,
                         out |-> readGaussians(NoAcc, <<probe.rec>>, 0).all]
    /\ UNCHANGED <<mw_n_, grid_, biasf_, wgridstride_, pc, adaptive_, step, done,
                   isFirstStep, hills_, BiasGrid_, ifiles, files, gridfile, added,
                   origin, lastPoll, flexbin, updated, run, ref, input>>

NextFile == WriteHill \/ ReadFile
SpecFile == InitFile /\ [][NextFile]_vars

-----------------------------------------------------------------------------
(* One call of evaluateGaussian, in a run without the interval correction.
   The hills: isotropic ones with the widths 1 and 2, and full-covariance
   ones; the points reach beyond the cutoff of each of them *)
MaxPoint == 7
EvalPoints == {<<x, y>> : x, y \in 0 .. MaxPoint}
EvalHills ==
    {Gaussian(c, s, h, FALSE) :
        c \in CVs, s \in {<<1, 1>>, <<2, 2>>, <<1, 2>>}, h \in {height0_, height0_ \div 2}}
    \cup {Gaussian(c, s, h, TRUE) :
             c \in CVs, s \in FlexOut \cup {<<1, 0, 1>>, <<2, 1, 1>>, <<5, 2, 1>>},
             h \in {height0_, height0_ \div 2}}

InitEval ==
    /\ mw_n_ = 1
    /\ grid_ = FALSE
    /\ biasf_ \in {1, 2}
    /\ wgridstride_ = 0
    /\ adaptive_ = [r \in Walkers |-> "NONE"]
    /\ input = InputOf("NONE", biasf_, grid_, wgridstride_, mw_n_)
    /\ error = ""
    /\ pc = [r \in Walkers |-> "none"]
    /\ NoRun
    /\ probe \in [op : {"point"}, hill : EvalHills, cv : EvalPoints]

(* MetaD::evaluateGaussian(cv, hill, der) with der zero at the call *)
Evaluate ==
    /\ probe.op = "point"
    /\ probe' = [op |-> "value", hill |-> probe.hill, cv |-> probe.cv,
                 out |-> evaluateGaussian(probe.cv, probe.hill)]
    /\ UNCHANGED <<mw_n_, grid_, biasf_, wgridstride_, pc, adaptive_, step, done,
                   isFirstStep, hills_, BiasGrid_, ifiles, files, gridfile, added,
                   origin, lastPoll, flexbin, updated, run, ref, input, error>>

NextEval == Evaluate
SpecEval == InitEval /\ [][NextEval]_vars

-----------------------------------------------------------------------------
(* Hills handed to addGaussian one after the other in Grid mode, from an
   empty grid.  The hills: isotropic ones, and full-covariance ones, among
   them the packed inverse <<1, 0, 4>> of the covariance with the variances
   1 and 1/4 on the two arguments (the integer quotient of Invert leaves 0
   for the 1/4; diagMatLeading takes the variance 1 and its axis, as diagMat
   does for the exact matrix) *)
MaxHills == 2
SplatHills ==
    {Gaussian(c, s, h, FALSE) :
        c \in CVs, s \in {sigma0_, <<2, 2>>}, h \in {height0_, height0_ \div 2}}
    \cup {Gaussian(c, s, h, TRUE) :
             c \in CVs, s \in FlexOut \cup {<<5, 2, 1>>, <<1, 0, 4>>},
             h \in {height0_, height0_ \div 2}}

InitSplat ==
    /\ mw_n_ = 1
    /\ grid_ = TRUE
    /\ biasf_ = 1
    /\ wgridstride_ = 0
    /\ adaptive_ = [r \in Walkers |-> "NONE"]
    /\ input = InputOf("NONE", biasf_, grid_, wgridstride_, mw_n_)
    /\ error = ""
    /\ pc = [r \in Walkers |-> "none"]
    /\ NoRun
    /\ probe = [op |-> "grid", acc |-> [hills |-> <<>>, grid |-> EmptyGrid, all |-> <<>>]]

(* MetaD::addGaussian(hill) on the grid *)
AddHill ==
    /\ probe.op = "grid"
    /\ Len(probe.acc.all) < MaxHills
    /\ \E hill \in SplatHills :
          probe' = [op |-> "grid", acc |-> addGaussian(probe.acc, hill)]
    /\ UNCHANGED <<mw_n_, grid_, biasf_, wgridstride_, pc, adaptive_, step, done,
                   isFirstStep, hills_, BiasGrid_, ifiles, files, gridfile, added,
                   origin, lastPoll, flexbin, updated, run, ref, input, error>>

NextSplat == AddHill
SpecSplat == InitSplat /\ [][NextSplat]_vars

-----------------------------------------------------------------------------
(* One call of getBiasAndDerivatives in List mode, made by every process of
   comm, for any number of processes and any hill list *)
MaxProcs == 4
MaxList == 3
ListHills ==
    {Gaussian(c, sigma0_, h, FALSE) : c \in CVs, h \in {height0_, height0_ \div 2}}
    \cup {Gaussian(<<1, 1>>, s, height0_, TRUE) : s \in FlexOut}
ListPoints == CVs \cup {<<0, 0>>}

InitList ==
    /\ mw_n_ = 1
    /\ grid_ = FALSE
    /\ biasf_ = 1
    /\ wgridstride_ = 0
    /\ adaptive_ = [r \in Walkers |-> "NONE"]
    /\ input = InputOf("NONE", biasf_, grid_, wgridstride_, mw_n_)
    /\ error = ""
    /\ pc = [r \in Walkers |-> "none"]
    /\ NoRun
    /\ probe \in [op : {"list"},
                  hills : UNION {[1 .. n -> ListHills] : n \in 0 .. MaxList},
                  cv : ListPoints,
                  size : 1 .. MaxProcs]

(* MetaD::getBiasAndDerivatives(cv, der) on the comm.Get_size() processes:
   the hills each process evaluates, and what each holds when it returns *)
EvaluateList ==
    /\ probe.op = "list"
    /\ probe' = [op |-> "sum", hills |-> probe.hills, cv |-> probe.cv,
                 size |-> probe.size,
                 shards |-> [rank \in 0 .. (probe.size - 1) |->
                               Shard(rank, probe.size, Len(probe.hills))],
                 out |-> [rank \in 0 .. (probe.size - 1) |->
                            ListBiasAndDerivatives(probe.size, probe.cv, probe.hills)]]
    /\ UNCHANGED <<mw_n_, grid_, biasf_, wgridstride_, pc, adaptive_, step, done,
                   isFirstStep, hills_, BiasGrid_, ifiles, files, gridfile, added,
                   origin, lastPoll, flexbin, updated, run, ref, input, error>>

NextList == EvaluateList
SpecList == InitList /\ [][NextList]_vars

-----------------------------------------------------------------------------
(* One addGaussian in Grid mode on the processes of comm, step by step: each
   process fills its buffers, waits in comm.Sum, and adds the summed buffers
   to its own copy of the grid.  phase of a process: "loop", "sum" (in
   comm.Sum), "apply" (comm.Sum returned), "done" *)
CommHills ==
    {Gaussian(c, sigma0_, height0_, FALSE) : c \in CVs}
    \cup {Gaussian(<<1, 1>>, s, height0_, TRUE) : s \in FlexOut}
CommGrids ==
    {EmptyGrid, ApplyDirect(EmptyGrid,
                            NeighborVector(Gaussian(<<2, 1>>, sigma0_, height0_, FALSE)),
                            Gaussian(<<2, 1>>, sigma0_, height0_, FALSE))}

InitComm ==
    /\ mw_n_ = 1
    /\ grid_ = TRUE
    /\ biasf_ = 1
    /\ wgridstride_ = 0
    /\ adaptive_ = [r \in Walkers |-> "NONE"]
    /\ input = InputOf("NONE", biasf_, grid_, wgridstride_, mw_n_)
    /\ error = ""
    /\ pc = [r \in Walkers |-> "none"]
    /\ NoRun
    /\ \E size \in 1 .. MaxProcs, hill \in CommHills, pre \in CommGrids :
          probe = [op |-> "comm", size |-> size, hill |-> hill, pre |-> pre,
                   phase |-> [rank \in 0 .. (size - 1) |-> "loop"],
                   buf |-> [rank \in 0 .. (size - 1) |-> ZeroBuffer(NeighborVector(hill))],
                   grid |-> [rank \in 0 .. (size - 1) |-> pre]]

ProbeOnly ==
    UNCHANGED <<mw_n_, grid_, biasf_, wgridstride_, pc, adaptive_, step, done,
                isFirstStep, hills_, BiasGrid_, ifiles, files, gridfile, added,
                origin, lastPoll, flexbin, updated, run, ref, input, error>>

(* "if(comm.Get_size()==1)": the one process evaluates and adds *)
SplatAlone ==
    /\ probe.op = "comm" /\ probe.size = 1 /\ probe.phase[0] = "loop"
    /\ probe' = [probe EXCEPT
                   !.phase[0] = "done",
                   !.grid[0] = ApplyDirect(@, NeighborVector(probe.hill), probe.hill)]
    /\ ProbeOnly

(* The first loop of process rank, up to its call of comm.Sum *)
Fill(rank) ==
    /\ probe.op = "comm" /\ probe.size > 1
    /\ rank \in DOMAIN probe.phase /\ probe.phase[rank] = "loop"
    /\ probe' = [probe EXCEPT
                   !.phase[rank] = "sum",
                   !.buf[rank] = FillBuffer(rank, probe.size, probe.hill,
                                            NeighborVector(probe.hill))]
    /\ ProbeOnly

(* comm.Sum returns on every process once all of them have called it *)
CommSum ==
    /\ probe.op = "comm" /\ probe.size > 1
    /\ \A rank \in DOMAIN probe.phase : probe.phase[rank] = "sum"
    /\ probe' = [probe EXCEPT
                   !.phase = [rank \in DOMAIN probe.phase |-> "apply"],
                   !.buf = [rank \in DOMAIN probe.phase |->
                              SumBuffers(probe.buf, probe.size,
                                         NeighborVector(probe.hill))]]
    /\ ProbeOnly

(* The last loop of process rank *)
Apply(rank) ==
    /\ probe.op = "comm" /\ probe.size > 1
    /\ rank \in DOMAIN probe.phase /\ probe.phase[rank] = "apply"
    /\ probe' = [probe EXCEPT
                   !.phase[rank] = "done",
                   !.grid[rank] = ApplyBuffer(@, NeighborVector(probe.hill),
                                              probe.buf[rank])]
    /\ ProbeOnly

NextComm ==
    SplatAlone \/ CommSum \/ \E rank \in 0 .. (MaxProcs - 1) : Fill(rank) \/ Apply(rank)
SpecComm == InitComm /\ [][NextComm]_vars

-----------------------------------------------------------------------------
(* One evaluation of a hill in a run with the interval correction: the run
   with two arguments that the constructor accepts with it is an ADAPTIVE
   one; its hills are full-covariance, or isotropic when read from the file
   of a run without ADAPTIVE.  The first argument of the points goes from
   below the lower limit to the upper limit *)
IntervalHills ==
    {Gaussian(c, s, height0_, FALSE) : c \in CVs, s \in {sigma0_, <<2, 2>>}}
    \cup {Gaussian(c, s, height0_, TRUE) : c \in CVs, s \in FlexOut \cup {<<5, 2, 1>>}}

InitInterval ==
    /\ mw_n_ = 1
    /\ grid_ \in BOOLEAN
    /\ biasf_ = 1
    /\ wgridstride_ = 0
    /\ adaptive_ = [r \in Walkers |-> "GEOM"]
    /\ input = [InputOf("GEOM", biasf_, grid_, wgridstride_, mw_n_)
                  EXCEPT !.LOWER_INTERVAL = 1, !.UPPER_INTERVAL = 3]
    /\ error = ""
    /\ pc = [r \in Walkers |-> "none"]
    /\ NoRun
    /\ probe \in [op : {"point"}, hill : IntervalHills, cv : GridPoints]

(* MetaD::getBiasAndDerivatives(cv, der) in Grid mode on the grid that holds
   the hill *)
EvaluateGrid ==
    /\ probe.op = "point"
    /\ grid_
    /\ probe' = [op |-> "gridvalue", hill |-> probe.hill, cv |-> probe.cv,
                 out |-> getBiasAndDerivatives(probe.cv, <<>>,
                                               addGaussianGrid(EmptyGrid, probe.hill))]
    /\ ProbeOnly

NextInterval == Evaluate \/ EvaluateGrid
SpecInterval == InitInterval /\ [][NextInterval]_vars

-----------------------------------------------------------------------------
(* The constructor on any input.  The values a keyword takes: the ones the
   model runs with, and ones the constructor has a check for *)
Inputs ==
    [ADAPTIVE : {"NONE", "GEOM", "DIFF", "FLEX"},
     SIGMA : {<<1>>, <<1, 1>>, <<1, 1, 1>>},
     HEIGHT : {0 - height0_, 0, height0_},
     PACE : {0 - stride_, 0, stride_},
     BIASFACTOR : {0, 1, 2},
     TEMP : {0, 300},
     GRID_MIN : {<<>>, <<0>>, gmin},
     GRID_MAX : {<<>>, <<3>>, gmax},
     GRID_BIN : {<<>>, <<3>>, <<3, 1>>},
     GRID_WSTRIDE : {0},
     GRID_NOSPLINE : BOOLEAN,
     GRID_WFILE : {""},
     WALKERS_N : {1},
     UPPER_INTERVAL : {0 - 1, 0, 2},
     LOWER_INTERVAL : {0 - 1, 2}]

(* The members as the initialiser list of the constructor leaves them; the
   process of walker r has its input and has not parsed it *)
InitConf ==
    /\ input \in Inputs
    /\ error = ""
    /\ probe = NoProbe
    /\ mw_n_ = 1
    /\ grid_ = FALSE
    /\ biasf_ = 1
    /\ wgridstride_ = 0
    /\ adaptive_ = [r \in Walkers |-> "NONE"]
    /\ pc = [r \in Walkers |-> "input"]
    /\ NoRun

(* MetaD::MetaD up to checkRead and the interval checks: the keywords are
   parsed into the members, or error() ends the process with its message
   before the grid is built and before any file is touched *)
Parse(r) ==
    /\ pc[r] = "input"
    /\ IF parseError(input, r) # ""
       THEN /\ error' = parseError(input, r)
            /\ pc' = [pc EXCEPT ![r] = "error"]
            /\ UNCHANGED <<mw_n_, grid_, biasf_, wgridstride_, adaptive_, probe>>
       ELSE /\ pc' = [pc EXCEPT ![r] = "none"]
            /\ probe' = [op |-> "MetaD", spline |-> spline(input)]
            /\ adaptive_' = [adaptive_ EXCEPT ![r] = input.ADAPTIVE]
            /\ biasf_' = input.BIASFACTOR
            /\ grid_' = gridGiven(input)
            /\ wgridstride_' = input.GRID_WSTRIDE
            /\ mw_n_' = input.WALKERS_N
            /\ error' = error
    /\ UNCHANGED <<step, done, isFirstStep, hills_, BiasGrid_, ifiles, files, gridfile,
                   added, origin, lastPoll, flexbin, updated, run, ref, input>>

(* The engine of the constructed walker goes to its next step *)
Tick == pc[0] = "run" /\ NextStep

NextConf == Tick \/ Parse(0) \/ Start(0) \/ Restart(0) \/ Update(0)
SpecConf == InitConf /\ [][NextConf]_vars

-----------------------------------------------------------------------------
(* What the history variables say *)

Running(r) == pc[r] = "run"
(* The hills of added[r] that came from file i, as the indices of their records *)
FromFile(r, i) ==
    LET sel == SelectSeq(origin[r], LAMBDA e : e.src = i)
    IN [k \in DOMAIN sel |-> sel[k].idx]
(* The hill a reader builds from one record on its own *)
HillOf(rec) == scannedHill(rec, [i \in Args |-> 0]).hill
(* Every hill of added[r] that came from a file is the hill of its record *)
AddedAsLogged(r) ==
    /\ Len(added[r]) = Len(origin[r])
    /\ \A k \in DOMAIN origin[r] :
          /\ origin[r][k].idx <= Len(files[origin[r][k].src].recs)
          /\ added[r][k] = HillOf(files[origin[r][k].src].recs[origin[r][k].idx])
(* Walker r deposits a hill in this step of its run *)
DepositsNow(r) ==
    /\ run'[r] = run[r]
    /\ Len(origin'[r]) > Len(origin[r])
    /\ origin'[r][Len(origin[r]) + 1].local

-----------------------------------------------------------------------------
(* C1: in well-tempered mode (and without it), the height of every locally
   deposited hill is the height getHeight computes from the hill list or the
   grid as it was before the update() that deposits the hill: the new hill
   is not part of the bias its own height is computed from. *)
HeightReadBeforeWrite ==
    [][\A r \in Walkers :
          DepositsNow(r) =>
             LET newhill == added'[r][Len(added[r]) + 1]
             IN newhill.height = getHeight(newhill.center, hills_[r], BiasGrid_[r])]_vars

(* A well-tempered Grid run in which a hill was deposited on top of earlier
   bias, so its height is below the initial height *)
HeightReadBeforeWriteWitness ==
    \E r \in Walkers : \E k \in DOMAIN origin[r] :
        /\ welltemp_ /\ grid_
        /\ origin[r][k].local
        /\ added[r][k].height < height0_
        /\ added[r][k].height > 0

-----------------------------------------------------------------------------
(* C2: restart equivalence.  A single walker that ran the first K steps,
   was restarted from its own log (any K, also a multiple of the deposition
   stride) and ran on has the same sequence of hills, centers, widths and
   heights, and the same hill list or grid, as the run of the same steps
   that was never interrupted: no deposition is lost or made twice. *)
RestartEquivalence ==
    (mw_n_ = 1 /\ Running(0)) =>
        /\ added[0] = ref.all
        /\ hills_[0] = ref.hills
        /\ BiasGrid_[0] = ref.grid

(* The walker deposited at step 2, a multiple of the stride, was restarted
   at that step, and its new process has updated for step 2 again: the
   accumulator holds the one hill, read from the log *)
RestartEquivalenceWitness ==
    /\ mw_n_ = 1 /\ Running(0) /\ run[0] = 2
    /\ step = stride_ /\ done[0] /\ ~isFirstStep[0]
    /\ Len(added[0]) = 1 /\ ~origin[0][1].local
    /\ files[0].recs[1].time = stride_

-----------------------------------------------------------------------------
(* Walker r polls the peer logs in this step of its run *)
PollsNow(r) ==
    /\ Running(r) /\ run'[r] = run[r] /\ ~done[r] /\ done'[r]
    /\ nowReadWalkers(step) /\ pc'[r] = "run"

(* C3: idempotent replay.  A poll of a peer log that has no record after
   the cursor adds no hill from that log and leaves the cursor where it
   was; if the walker deposits nothing itself in that update, its hill
   list and its grid cells are unchanged. *)
IdempotentReplay ==
    [][\A r \in Walkers : \A i \in Walkers \ {r} :
          (/\ i < mw_n_ /\ PollsNow(r)
           /\ ifiles[r][i].open
           /\ ifiles[r][i].pos = Len(files[i].recs)) =>
             /\ ifiles'[r][i] = ifiles[r][i]
             /\ \A k \in (Len(origin[r]) + 1) .. Len(origin'[r]) : origin'[r][k].local
             /\ Len(added'[r]) = Len(origin'[r])
             /\ Len(added'[r]) <= Len(added[r]) + 1
             /\ ~DepositsNow(r) =>
                   /\ added'[r] = added[r]
                   /\ hills_'[r] = hills_[r]
                   /\ BiasGrid_'[r] = BiasGrid_[r]]_vars

(* Walker 1 read the record of walker 0 at one poll and found nothing new
   at its next poll, at step 4: the last hill it added is its own *)
IdempotentReplayWitness ==
    /\ mw_n_ = 2 /\ Running(1) /\ run[1] = 1
    /\ lastPoll[1] = 2 * mw_rstride_
    /\ ifiles[1][0].open /\ ifiles[1][0].pos = 1
    /\ Len(origin[1]) >= 2
    /\ origin[1][Len(origin[1])].local
    /\ origin[1][Len(origin[1]) - 1].src = 0

-----------------------------------------------------------------------------
(* C4: with two walkers, a hill that one walker deposits and writes at step
   s is in the other walker's accumulator once that walker has polled at a
   step of at least s + mw_rstride_, whether the log was missing, just
   opened or open for it when the hill was written; and every hill a walker
   has from the other's log is the hill of a record that is written. *)
PeerDelivery ==
    mw_n_ = 2 =>
       \A r \in Walkers : \A i \in Walkers \ {r} :
          Running(r) =>
             /\ AddedAsLogged(r)
             /\ \A j \in DOMAIN files[i].recs :
                   lastPoll[r] >= files[i].recs[j].time + mw_rstride_ =>
                      \E k \in DOMAIN origin[r] :
                         origin[r][k] = [src |-> i, idx |-> j, local |-> FALSE]

(* Walker 1 did not get the hill walker 0 wrote at step 2 at its poll of
   step 2, and got it at its poll of step 4, after its own hill of step 4 *)
PeerDeliveryWitness ==
    /\ mw_n_ = 2 /\ Running(1) /\ run[1] = 1
    /\ Len(files[0].recs) >= 1 /\ files[0].recs[1].time = mw_rstride_
    /\ lastPoll[1] = 2 * mw_rstride_
    /\ \E k \in DOMAIN origin[1] :
          /\ k > 1
          /\ origin[1][k] = [src |-> 0, idx |-> 1, local |-> FALSE]
          /\ origin[1][k - 1] = [src |-> 1, idx |-> 2, local |-> TRUE]

-----------------------------------------------------------------------------
(* The two parts of C5: what a walker holds from a peer log, and how the
   cursor moves in one step *)
ConsumedOnce ==
    \A r \in Walkers : \A i \in Walkers \ {r} :
       (i < mw_n_ /\ Running(r)) =>
          /\ AddedAsLogged(r)
          /\ ifiles[r][i].pos <= Len(files[i].recs)
          /\ FromFile(r, i) = [k \in 1 .. ifiles[r][i].pos |-> k]
CursorForward ==
    \A r \in Walkers : \A i \in Walkers \ {r} :
       (i < mw_n_ /\ Running(r) /\ run'[r] = run[r]) =>
          /\ ifiles'[r][i].pos >= ifiles[r][i].pos
          /\ (PollsNow(r) /\ ifiles[r][i].open) =>
                ifiles'[r][i].pos = Len(files[i].recs)
(* C5: exactly-once incremental delivery.  The cursor of a peer log never
   moves back in a run; a poll of an open peer log adds the records after
   the cursor and leaves the cursor at the end of the log; and the hills a
   walker has from a peer log are the records 1 .. cursor of that log, each
   once and in the order written. *)
ExactlyOnceDelivery == []ConsumedOnce /\ [][CursorForward]_vars

(* Walker 1 has read both records of walker 0, at two polls *)
ExactlyOnceDeliveryWitness ==
    /\ mw_n_ = 2 /\ Running(1) /\ run[1] = 1
    /\ Len(files[0].recs) = 2 /\ ifiles[1][0].pos = 2
    /\ \E k \in DOMAIN origin[1] :
          /\ k > 1 /\ k < Len(origin[1])
          /\ origin[1][k - 1].src = 0
          /\ origin[1][k].local
          /\ origin[1][k + 1].src = 0

-----------------------------------------------------------------------------
(* The two parts of C6: the own log in the accumulator, and what one step
   adds from it *)
OwnOnce ==
    \A r \in Walkers :
       Running(r) =>
          /\ ~ifiles[r][r].open
          /\ Len(added[r]) = Len(origin[r])
          /\ FromFile(r, r) = [k \in 1 .. Len(files[r].recs) |-> k]
OwnNotPolled ==
    \A r \in Walkers :
       (Running(r) /\ run'[r] = run[r]) =>
          \A k \in (Len(origin[r]) + 1) .. Len(origin'[r]) :
             origin'[r][k].src = r =>
                (origin'[r][k].local /\ k = Len(origin[r]) + 1)
(* C6: a running walker never reads its own log.  Its own IFile stays
   closed, a hill it adds in a run from its own log is one it deposits in
   that update, and every record of its log is in its accumulator exactly
   once: read by the constructor at restart, or deposited since. *)
NoSelfReplay == []OwnOnce /\ [][OwnNotPolled]_vars

(* A restarted walker of two that then deposited and polled *)
NoSelfReplayWitness ==
    \E r \in Walkers :
       /\ mw_n_ = 2 /\ Running(r) /\ run[r] = 2
       /\ lastPoll[r] = 2 * mw_rstride_
       /\ Len(files[r].recs) = 2
       /\ \E k, l \in DOMAIN origin[r] :
             /\ origin[r][k] = [src |-> r, idx |-> 1, local |-> FALSE]
             /\ origin[r][l] = [src |-> r, idx |-> 2, local |-> TRUE]

-----------------------------------------------------------------------------
(* The two parts of C7: the log against the accumulator, and how one step
   changes a log *)
Locals(r) == SelectSeq(origin[r], LAMBDA e : e.local)
Reread(r) == SelectSeq(origin[r], LAMBDA e : e.src = r /\ ~e.local)
LoggedInAccumulator ==
    \A r \in Walkers :
       Running(r) =>
          /\ Len(added[r]) = Len(origin[r])
          /\ Len(Locals(r)) = Len(files[r].recs) - Len(Reread(r))
          /\ \A j \in DOMAIN files[r].recs :
                \E k \in DOMAIN origin[r] :
                   /\ origin[r][k].src = r /\ origin[r][k].idx = j
                   /\ added[r][k] = HillOf(files[r].recs[j])
WritesOwnDeposit ==
    \A i \in Walkers :
       /\ files'[i].recs # files[i].recs =>
             /\ DepositsNow(i)
             /\ Len(files'[i].recs) = Len(files[i].recs) + 1
             /\ SubSeq(files'[i].recs, 1, Len(files[i].recs)) = files[i].recs
             /\ files'[i].recs[Len(files'[i].recs)].time = step
             /\ HillOf(files'[i].recs[Len(files'[i].recs)])
                   = added'[i][Len(added[i]) + 1]
             /\ \A j \in Walkers \ {i} : files'[j] = files[j]
       /\ DepositsNow(i) => Len(files'[i].recs) = Len(files[i].recs) + 1
(* C7: a log changes only when its own walker deposits: the update appends
   the one record of the hill just added and nothing else, hills read from
   logs are not written; so every record of a running walker's log is a
   hill of its accumulator, and the records its run appended are as many as
   its depositions. *)
OwnLogOnly == []LoggedInAccumulator /\ [][WritesOwnDeposit]_vars

(* A well-tempered walker of two that deposited and read the peer's hills:
   its log has its own two records only *)
OwnLogOnlyWitness ==
    \E r \in Walkers :
       /\ mw_n_ = 2 /\ welltemp_ /\ Running(r)
       /\ Len(files[r].recs) = 2 /\ Len(Locals(r)) = 2
       /\ Len(added[r]) >= 4

-----------------------------------------------------------------------------
(* What one step of walker r does to the IFile of a peer log *)
PeerLogForward ==
    \A r \in Walkers : \A i \in Walkers \ {r} :
       (i < mw_n_ /\ Running(r) /\ run'[r] = run[r]) =>
          /\ ifiles[r][i].open =>
                (ifiles'[r][i].open /\ ifiles'[r][i].pos >= ifiles[r][i].pos)
          /\ (PollsNow(r) /\ ~ifiles[r][i].open /\ ~files[i].exists) =>
                /\ ifiles'[r][i] = ifiles[r][i]
                /\ Len(added'[r]) = Len(origin'[r])
                /\ \A k \in (Len(origin[r]) + 1) .. Len(origin'[r]) :
                      origin'[r][k].local
                /\ ~DepositsNow(r) =>
                      (hills_'[r] = hills_[r] /\ BiasGrid_'[r] = BiasGrid_[r])
          /\ (PollsNow(r) /\ ~ifiles[r][i].open /\ files[i].exists) =>
                ifiles'[r][i] = [open |-> TRUE, pos |-> 0]
          /\ (~PollsNow(r) /\ ~ifiles[r][i].open) => ~ifiles'[r][i].open
(* C8: a peer log that does not exist at a poll leaves the walker running,
   the peer's IFile closed and no hill added from it; a poll that finds the
   file for the first time opens it at its start; and an open peer log
   stays open with a cursor that never moves back. *)
MissingPeerLog == [][PeerLogForward]_vars

(* Walker 0 polled twice while the log of walker 1 did not exist, and runs *)
MissingPeerLogWitness ==
    /\ mw_n_ = 2 /\ Running(0) /\ run[0] = 1
    /\ lastPoll[0] = mw_rstride_
    /\ ~files[1].exists /\ ~ifiles[0][1].open
    /\ Len(added[0]) = 1

-----------------------------------------------------------------------------
(* The two parts of C9: the list against the history, and how one step
   changes the list *)
ListIsAdded ==
    ~grid_ => \A r \in Walkers : hills_[r] = added[r]
ListGrows ==
    \A r \in Walkers :
       (~grid_ /\ run'[r] = run[r]) =>
          /\ Len(hills_'[r]) >= Len(hills_[r])
          /\ SubSeq(hills_'[r], 1, Len(hills_[r])) = hills_[r]
(* C9: in List mode the hill list of a process only grows at its end: it
   is the sequence of the hills handed to addGaussian, in order, and after
   every step of the process the earlier list is a prefix of the list. *)
ListAppendOnly == []ListIsAdded /\ [][ListGrows]_vars

(* A List walker that holds its own hills and hills read from the peer *)
ListAppendOnlyWitness ==
    \E r \in Walkers :
       /\ ~grid_ /\ Running(r)
       /\ Len(hills_[r]) >= 3
       /\ Len(Locals(r)) >= 1
       /\ Len(Locals(r)) < Len(hills_[r])

-----------------------------------------------------------------------------
(* C10: every hill handed to addGaussian, deposited or built from a record
   of a log, has a width vector of length ncv when it is isotropic and
   ncv*(ncv+1)/2 when it is full-covariance, also the hill of an isotropic
   record that follows a full-covariance record in the log. *)
WidthLength ==
    \A r \in Walkers : \A k \in DOMAIN added[r] :
       Len(added[r][k].sigma) = NSigma(added[r][k].multivariate)

-----------------------------------------------------------------------------
(* The two parts of C11: where the hills of a process are, and what a step
   does to the mode *)
ModeKept ==
    \A r \in Walkers :
       /\ grid_ =>
             /\ hills_[r] = <<>>
             /\ Running(r) => DOMAIN BiasGrid_[r] = GridPoints
             /\ Running(r) =>
                   \A cv \in CVs :
                      getBiasAndDerivatives(cv, hills_[r], BiasGrid_[r]).bias
                         = BiasGrid_[r][cv].v
       /\ ~grid_ =>
             /\ BiasGrid_[r] = NoGrid
             /\ \A cv \in CVs :
                   getBiasAndDerivatives(cv, hills_[r], BiasGrid_[r]).bias
                      = SumTo(Len(hills_[r]),
                              [i \in DOMAIN hills_[r] |->
                                 evaluateGaussian(cv, hills_[r][i]).bias])
ModeFixed == grid_' = grid_
(* C11: the storage mode of a run never changes.  In Grid mode the hill
   list of every process is empty after any depositions and replays, the
   grid exists and the bias is read from it; in List mode no grid exists
   and the bias at a point is the sum of the hills of the list at it. *)
StorageMode == []ModeKept /\ [][ModeFixed]_vars

(* A Grid walker that deposited and replayed hills of its peer: its list is
   empty and its grid holds bias *)
StorageModeWitness ==
    \E r \in Walkers :
       /\ grid_ /\ mw_n_ = 2 /\ Running(r)
       /\ Len(added[r]) >= 3
       /\ Len(Locals(r)) >= 1 /\ Len(Locals(r)) < Len(added[r])
       /\ hills_[r] = <<>>
       /\ \E p \in GridPoints : BiasGrid_[r][p].v > 0

-----------------------------------------------------------------------------
(* The three parts of C12: the height a deposit writes, the height a replay
   gives the hill of a record, and the two together *)
HeightWritten ==
    \A i \in Walkers :
       DepositsNow(i) =>
          LET h == added'[i][Len(added[i]) + 1].height
              written == files'[i].recs[Len(files'[i].recs)].height
          IN IF welltemp_ THEN written * (biasf_ - 1) = h * biasf_ ELSE written = h
HeightReplayed ==
    \A r \in Walkers : \A k \in DOMAIN origin[r] :
       (Len(added[r]) = Len(origin[r]) /\ ~origin[r][k].local) =>
          LET written == files[origin[r][k].src].recs[origin[r][k].idx].height
          IN IF welltemp_ THEN added[r][k].height * biasf_ = written * (biasf_ - 1)
             ELSE added[r][k].height = written
HeightSame ==
    \A r, q \in Walkers : \A k \in DOMAIN origin[r] : \A j \in DOMAIN origin[q] :
       (/\ Len(added[r]) = Len(origin[r]) /\ Len(added[q]) = Len(origin[q])
        /\ ~origin[r][k].local /\ origin[q][j].local
        /\ origin[r][k].src = q /\ origin[r][k].idx = origin[q][j].idx) =>
          added[r][k].height = added[q][j].height
(* C12: in a well-tempered run a hill deposited with height h is written
   with height h*biasf/(biasf-1) and the hill a run with the same bias
   factor builds from the record has the written height times
   (biasf-1)/biasf, which is h again; without well-tempering the height is
   written and read back as it is. *)
HeightRoundTrip == [](HeightReplayed /\ HeightSame) /\ [][HeightWritten]_vars

(* A well-tempered walker holds a hill of its peer whose height, below the
   initial height, is the height the peer deposited it with and half the
   height of the record *)
HeightRoundTripWitness ==
    \E r, q \in Walkers : \E k \in DOMAIN origin[r] : \E j \in DOMAIN origin[q] :
       /\ welltemp_ /\ r # q /\ Running(r) /\ Running(q)
       /\ ~origin[r][k].local /\ origin[q][j].local
       /\ origin[r][k].src = q /\ origin[r][k].idx = origin[q][j].idx
       /\ added[q][j].height < height0_ /\ added[q][j].height > 0
       /\ added[r][k].height = added[q][j].height
       /\ files[q].recs[origin[q][j].idx].height = 2 * added[q][j].height

-----------------------------------------------------------------------------
(* C13: a full-covariance hill written by writeGaussian and read back has
   the shape flag true and the packed inverse covariance it was written
   with, ncv*(ncv+1)/2 entries; the record has the ncv*(ncv+1)/2 fields of
   the lower Cholesky factor in band order, under the names the scan asks
   for. *)
MultivariateRoundTrip ==
    (probe.op = "read" /\ probe.hill.multivariate) =>
       /\ probe.rec.multivariate = "true"
       /\ [k \in DOMAIN probe.rec.sigma |-> probe.rec.sigma[k].name]
             = <<<<"sigma", "cv1", "cv1">>, <<"sigma", "cv2", "cv2">>,
                 <<"sigma", "cv2", "cv1">>>>
       /\ \A k \in DOMAIN probe.rec.sigma :
             hasField(probe.rec, probe.rec.sigma[k].name)
       /\ Len(probe.out) = 1
       /\ probe.out[1].multivariate
       /\ Len(probe.out[1].sigma) = (getNumberOfArguments * (getNumberOfArguments + 1)) \div 2
       /\ probe.out[1].sigma = probe.hill.sigma
       /\ probe.out[1].center = probe.hill.center

(* A hill with correlated arguments was written and read back *)
MultivariateRoundTripWitness ==
    /\ probe.op = "read" /\ probe.hill.multivariate
    /\ probe.hill.sigma = <<5, 2, 1>>
    /\ probe.rec.sigma[3].name = <<"sigma", "cv2", "cv1">>
    /\ probe.rec.sigma[3].val = 0 - 2
    /\ probe.out[1].sigma = <<5, 2, 1>>

-----------------------------------------------------------------------------
(* The input has one of the faults: SIGMA values that are not one per
   argument without ADAPTIVE, HEIGHT not positive, PACE not positive *)
BadSigmaHeightPace ==
    \/ input.ADAPTIVE = "NONE" /\ Len(input.SIGMA) # getNumberOfArguments
    \/ input.HEIGHT <= 0
    \/ input.PACE <= 0

(* C14: once the constructor has looked at an input with SIGMA values that
   are not one per argument (no ADAPTIVE), HEIGHT <= 0 or PACE <= 0, the
   process has ended with an error, no file was opened, read or written
   and no step was made; a process that was constructed or runs has
   HEIGHT > 0, PACE > 0 and, without ADAPTIVE, one SIGMA per argument. *)
RejectSigmaHeightPace ==
    /\ (pc[0] # "input" /\ BadSigmaHeightPace) => (pc[0] = "error" /\ error # "")
    /\ pc[0] = "error" => (error # "" /\ NoRun)
    /\ pc[0] \notin {"input", "error"} =>
          /\ input.HEIGHT > 0 /\ input.HEIGHT = height0_
          /\ input.PACE > 0 /\ input.PACE = stride_
          /\ adaptive_[0] = "NONE" =>
                (Len(input.SIGMA) = getNumberOfArguments /\ input.SIGMA = sigma0_)

(* An input whose only fault is HEIGHT 0 was rejected *)
RejectSigmaHeightPaceWitness ==
    /\ pc[0] = "error"
    /\ input.HEIGHT = 0 /\ input.PACE > 0
    /\ input.ADAPTIVE = "NONE" /\ Len(input.SIGMA) = getNumberOfArguments
    /\ error = heightError(input)
    /\ NoRun

-----------------------------------------------------------------------------
(* C15: a file whose periodicity for some argument is not exactly the one
   of the run's argument (periodic where the argument is not, not periodic
   where the argument is, or periodic with another domain) ends the read
   with an error and no hill of it is added. *)
PeriodicityMatch ==
    (probe.op \in {"read", "error"}
        /\ \E i \in Args : probe.filePeriod[i] # probe.argPeriod[i]) =>
       /\ probe.op = "error"
       /\ error # ""
       /\ probe.out = <<>>

-----------------------------------------------------------------------------
(* C16: an input with UPPER_INTERVAL and LOWER_INTERVAL different is
   rejected when the run has more than one argument, with ADAPTIVE as
   well, and when the upper limit is below the lower one; a constructed
   process with the interval correction has one argument and
   lower <= upper. *)
IntervalOneArgument ==
    /\ (pc[0] # "input" /\ input.UPPER_INTERVAL # input.LOWER_INTERVAL
          /\ (getNumberOfArguments > 1 \/ input.UPPER_INTERVAL < input.LOWER_INTERVAL)) =>
         (pc[0] = "error" /\ error # "")
    /\ (pc[0] \notin {"input", "error"} /\ doInt_) =>
         (getNumberOfArguments = 1 /\ lowI_ <= uppI_)

-----------------------------------------------------------------------------
(* C17: a constructed process is well-tempered exactly when BIASFACTOR is
   above 1, and then TEMP was given; an input with BIASFACTOR above 1 and
   TEMP left at 0, or with BIASFACTOR below 1, is rejected by the
   constructor; with BIASFACTOR 1 every hill deposited has the height
   HEIGHT, every record has the height of its hill and every hill read
   from a record has the height of the record. *)
WellTempered ==
    /\ pc[0] \notin {"input", "error"} =>
          /\ welltemp_ <=> input.BIASFACTOR > 1
          /\ welltemp_ => input.TEMP # 0
          /\ input.BIASFACTOR >= 1
    /\ (pc[0] # "input"
          /\ (input.BIASFACTOR < 1 \/ (input.BIASFACTOR > 1 /\ input.TEMP = 0))) =>
         (pc[0] = "error" /\ error # "")
    /\ (pc[0] \notin {"input", "error"} /\ input.BIASFACTOR = 1) =>
          /\ \A k \in DOMAIN added[0] : added[0][k].height = height0_
          /\ \A k \in DOMAIN files[0].recs : files[0].recs[k].height = height0_
          /\ \A k \in DOMAIN origin[0] :
                added[0][k].height = files[0].recs[origin[0][k].idx].height

(* With BIASFACTOR 1 a process deposited on top of a hill it read at restart *)
WellTemperedWitness ==
    /\ pc[0] = "run" /\ input.BIASFACTOR = 1 /\ ~welltemp_
    /\ \E k, l \in DOMAIN origin[0] :
          /\ ~origin[0][k].local /\ origin[0][l].local
          /\ added[0][k].height = height0_ /\ added[0][l].height = height0_

-----------------------------------------------------------------------------
(* C18: with ADAPTIVE GEOM or DIFF an input whose number of SIGMA values is
   not one is rejected by the constructor, and every hill a process
   deposits is full-covariance with the packed matrix FlexibleBin gave;
   without ADAPTIVE every hill a process deposits is isotropic with the
   SIGMA values of the input. *)
AdaptiveShape ==
    /\ (pc[0] # "input" /\ input.ADAPTIVE \in {"GEOM", "DIFF"}
          /\ Len(input.SIGMA) # 1) => (pc[0] = "error" /\ error # "")
    /\ pc[0] \notin {"input", "error"} =>
          \A k \in DOMAIN origin[0] : origin[0][k].local =>
             IF input.ADAPTIVE \in {"GEOM", "DIFF"}
             THEN /\ added[0][k].multivariate
                  /\ added[0][k].sigma \in FlexOut
                  /\ Len(added[0][k].sigma)
                        = (getNumberOfArguments * (getNumberOfArguments + 1)) \div 2
             ELSE /\ ~added[0][k].multivariate
                  /\ added[0][k].sigma = input.SIGMA

(* A process with ADAPTIVE DIFF and one SIGMA value deposited a hill *)
AdaptiveShapeWitness ==
    /\ pc[0] = "run" /\ input.ADAPTIVE = "DIFF" /\ Len(input.SIGMA) = 1
    /\ \E k \in DOMAIN origin[0] : origin[0][k].local /\ added[0][k].multivariate

-----------------------------------------------------------------------------
(* GRID_MIN, GRID_MAX and GRID_BIN are all absent, or all given with one
   entry per argument *)
GridKeywordsAgree ==
    \/ Len(input.GRID_MIN) = 0 /\ Len(input.GRID_MAX) = 0 /\ Len(input.GRID_BIN) = 0
    \/ /\ Len(input.GRID_MIN) = getNumberOfArguments
       /\ Len(input.GRID_MAX) = getNumberOfArguments
       /\ Len(input.GRID_BIN) = getNumberOfArguments

(* C19: a constructed process is in Grid mode exactly when GRID_BIN was
   given; an input in which GRID_MIN, GRID_MAX and GRID_BIN are neither all
   absent nor all given with one entry per argument is rejected by the
   constructor; a process has a grid only in Grid mode, built with all
   three given. *)
GridGiven ==
    /\ pc[0] \notin {"input", "error"} => (grid_ <=> Len(input.GRID_BIN) > 0)
    /\ (pc[0] # "input" /\ ~GridKeywordsAgree) => (pc[0] = "error" /\ error # "")
    /\ pc[0] = "run" => (grid_ <=> BiasGrid_[0] # NoGrid)
    /\ BiasGrid_[0] # NoGrid =>
          /\ grid_
          /\ input.GRID_MIN = gmin /\ input.GRID_MAX = gmax
          /\ Len(input.GRID_BIN) = getNumberOfArguments

(* A process built its grid from the three keywords and added a hill to it *)
GridGivenWitness ==
    /\ pc[0] = "run" /\ grid_ /\ input.GRID_BIN = <<3, 1>>
    /\ BiasGrid_[0] # NoGrid
    /\ Len(added[0]) > 0

-----------------------------------------------------------------------------
(* Eight times the normalized squared distance d2 of the point of the probe
   from the centre of its hill, from the widths or the packed matrix *)
D8 ==
    IF probe.hill.multivariate
    THEN 4 * ((probe.cv[1] - probe.hill.center[1]) * (probe.cv[1] - probe.hill.center[1])
                 * probe.hill.sigma[1]
              + 2 * (probe.cv[1] - probe.hill.center[1])
                  * (probe.cv[2] - probe.hill.center[2]) * probe.hill.sigma[2]
              + (probe.cv[2] - probe.hill.center[2]) * (probe.cv[2] - probe.hill.center[2])
                 * probe.hill.sigma[3])
    ELSE ((2 * (probe.cv[1] - probe.hill.center[1])) \div probe.hill.sigma[1])
            * ((2 * (probe.cv[1] - probe.hill.center[1])) \div probe.hill.sigma[1])
         + ((2 * (probe.cv[2] - probe.hill.center[2])) \div probe.hill.sigma[2])
            * ((2 * (probe.cv[2] - probe.hill.center[2])) \div probe.hill.sigma[2])

(* C20: without the interval correction, for an isotropic or
   full-covariance hill and a point with d2 above 6.25 evaluateGaussian
   returns 0 and leaves der as it was; with d2 equal to 6.25 it returns at
   most height*exp(-6.25); with d2 below 6.25 it returns
   height*exp(-d2). *)
CutoffValue ==
    probe.op = "value" =>
       /\ D8 > 50 => (probe.out.bias = 0 /\ probe.out.der = <<0, 0>>)
       /\ D8 = 50 => probe.out.bias <= (probe.hill.height * 193) \div 100000
       /\ D8 < 50 =>
             /\ probe.out.bias = (probe.hill.height * ExpTab[D8 + 1]) \div 100000
             /\ probe.out.bias > 0

(* A point at d2 exactly 6.25 from an isotropic hill was evaluated *)
CutoffValueWitness ==
    /\ probe.op = "value" /\ ~probe.hill.multivariate
    /\ D8 = 50
    /\ probe.out.bias = 0

-----------------------------------------------------------------------------
(* The probe is an evaluated point inside the cutoff of an isotropic hill *)
IsotropicInside == probe.op = "value" /\ ~probe.hill.multivariate /\ D8 < 50

(* C21, as stated: for an isotropic hill and a point inside the cutoff the
   derivative evaluateGaussian adds for argument i is -value * d_i / width_i,
   d_i the difference between the point and the centre (der is in units of
   1/4). *)
GradientOverWidth ==
    IsotropicInside =>
       \A i \in Args :
          probe.out.der[i] * probe.hill.sigma[i]
             = 0 - 4 * probe.out.bias * (probe.cv[i] - probe.hill.center[i])

(* C21, amended: for an isotropic hill and a point inside the cutoff the
   derivative evaluateGaussian adds for argument i is
   -value * d_i / width_i^2, with value = height*exp(-d2). *)
GradientOverWidthSquared ==
    IsotropicInside =>
       /\ probe.out.bias = (probe.hill.height * ExpTab[D8 + 1]) \div 100000
       /\ \A i \in Args :
             probe.out.der[i] * probe.hill.sigma[i] * probe.hill.sigma[i]
                = 0 - 4 * probe.out.bias * (probe.cv[i] - probe.hill.center[i])

(* A point off the centre of a hill of width 2 was evaluated inside the cutoff *)
GradientOverWidthSquaredWitness ==
    /\ IsotropicInside
    /\ probe.hill.sigma = <<2, 2>>
    /\ probe.out.bias > 0
    /\ probe.out.der[1] < 0 /\ probe.out.der[2] < 0

-----------------------------------------------------------------------------
(* C22: in a well-tempered run a hill deposited where the accumulated bias
   is positive has a height below HEIGHT, and a hill deposited where the
   accumulated bias is zero has the height HEIGHT; a second hill deposited
   inside the support of a first one of height HEIGHT is lower than the
   first. *)
DecreasingHeight ==
    [][\A r \in Walkers :
          (DepositsNow(r) /\ welltemp_) =>
             /\ getBiasAndDerivatives(added'[r][Len(added[r]) + 1].center,
                                      hills_[r], BiasGrid_[r]).bias > 0
                   => added'[r][Len(added[r]) + 1].height < height0_
             /\ getBiasAndDerivatives(added'[r][Len(added[r]) + 1].center,
                                      hills_[r], BiasGrid_[r]).bias = 0
                   => added'[r][Len(added[r]) + 1].height = height0_
             /\ (Len(added[r]) = 1 /\ added[r][1].height = height0_
                   /\ evaluateGaussian(added'[r][Len(added[r]) + 1].center,
                                       added[r][1]).bias > 0)
                   => added'[r][Len(added[r]) + 1].height < added[r][1].height]_vars

(* A well-tempered List walker deposited its second hill beside its first *)
DecreasingHeightWitness ==
    \E r \in Walkers :
        /\ welltemp_ /\ ~grid_ /\ Len(added[r]) >= 2
        /\ origin[r][1].local /\ origin[r][2].local
        /\ added[r][1].height = height0_
        /\ added[r][2].center # added[r][1].center
        /\ added[r][2].height < added[r][1].height
        /\ added[r][2].height > 0

-----------------------------------------------------------------------------
(* The List-mode bias and derivative at p of the hills handed to addGaussian *)
ListBias(p) ==
    SumOver(DOMAIN probe.acc.all,
            [i \in DOMAIN probe.acc.all |-> evaluateGaussian(p, probe.acc.all[i]).bias])
ListDer(p, j) ==
    SumOver(DOMAIN probe.acc.all,
            [i \in DOMAIN probe.acc.all |-> evaluateGaussian(p, probe.acc.all[i]).der[j]])

(* C23: after the same hills were added in Grid mode, the value and the
   derivatives the grid holds at every grid point are the List-mode sums of
   the hills at that point: every hill was added at every grid point inside
   its cutoff and nowhere else. *)
ListGridAgree ==
    (probe.op = "grid" /\ grid_) =>
       \A p \in GridPoints :
          /\ probe.acc.grid[p].v = ListBias(p)
          /\ \A j \in Args : probe.acc.grid[p].d[j] = ListDer(p, j)

-----------------------------------------------------------------------------
(* C24: for every hill handed to addGaussian, full-covariance or isotropic,
   the grid points within getGaussianSupport(hill) of its centre on every
   axis include every grid point where evaluateGaussian gives the hill a
   value other than 0; for an isotropic hill the counts are
   ceil(sqrt(2*6.25)*sigma_i/dx_i). *)
SupportCovers ==
    probe.op = "grid" =>
       \A k \in DOMAIN probe.acc.all :
          /\ \A p \in GridPoints :
                evaluateGaussian(p, probe.acc.all[k]).bias # 0 =>
                   p \in Grid_getNeighbors(probe.acc.all[k].center,
                                           getGaussianSupport(probe.acc.all[k]))
          /\ ~probe.acc.all[k].multivariate =>
                getGaussianSupport(probe.acc.all[k])
                   = [i \in Args |-> IF probe.acc.all[k].sigma[i] = 1 THEN 4 ELSE 8]

-----------------------------------------------------------------------------
(* C25: for every number of processes and every hill list, each hill of
   the list is evaluated by exactly one process, process rank taking the
   hills rank, rank+P, rank+2P, ... (counted from 0), and after comm.Sum
   every process holds the bias and the derivatives that are the sums over
   all the hills of the list. *)
ListWorkers ==
    probe.op = "sum" =>
       /\ \A i \in 1 .. Len(probe.hills) :
             Cardinality({rank \in 0 .. (probe.size - 1) : i \in probe.shards[rank]}) = 1
       /\ \A rank \in 0 .. (probe.size - 1) :
             /\ probe.shards[rank] \subseteq 1 .. Len(probe.hills)
             /\ \A i \in probe.shards[rank] :
                   \E k \in 0 .. Len(probe.hills) : i - 1 = rank + probe.size * k
             /\ probe.out[rank].bias
                   = SumOver(DOMAIN probe.hills, [i \in DOMAIN probe.hills |->
                                evaluateGaussian(probe.cv, probe.hills[i]).bias])
             /\ \A j \in Args :
                   probe.out[rank].der[j]
                      = SumOver(DOMAIN probe.hills, [i \in DOMAIN probe.hills |->
                                   evaluateGaussian(probe.cv, probe.hills[i]).der[j]])

(* Two processes summed three hills, and their sums are the same *)
ListWorkersWitness ==
    /\ probe.op = "sum" /\ probe.size = 2 /\ Len(probe.hills) = 3
    /\ probe.shards[0] = {1, 3} /\ probe.shards[1] = {2}
    /\ probe.out[0].bias > 0
    /\ probe.out[0].der[1] # 0
    /\ probe.out[1] = probe.out[0]

-----------------------------------------------------------------------------
(* The grid a single process holds after addGaussian of the hill of the
   probe: at every grid point within the support the value and derivatives
   of the hill added once to what was there *)
SingleGrid ==
    [p \in GridPoints |->
        IF p \in Grid_getNeighbors(probe.hill.center, getGaussianSupport(probe.hill))
        THEN [v |-> probe.pre[p].v + evaluateGaussian(p, probe.hill).bias,
              d |-> [j \in Args |->
                       probe.pre[p].d[j] + evaluateGaussian(p, probe.hill).der[j]]]
        ELSE probe.pre[p]]

SplatState ==
    probe.op = "comm" =>
       \A rank \in DOMAIN probe.phase :
          /\ probe.phase[rank] # "done" => probe.grid[rank] = probe.pre
          /\ probe.phase[rank] = "done" =>
                /\ probe.grid[rank] = SingleGrid
                /\ probe.grid[rank] = addGaussianGrid(probe.pre, probe.hill)
          /\ probe.phase[rank] = "apply" =>
                \A i \in DOMAIN probe.buf[rank] :
                   probe.buf[rank][i]
                      = evaluateGaussian(NeighborVector(probe.hill)[i], probe.hill)

SplatStep ==
    probe.op = "comm" =>
       \A rank \in DOMAIN probe.phase :
          probe'.grid[rank] # probe.grid[rank] =>
             /\ probe.size = 1 \/ probe.phase[rank] = "apply"
             /\ probe'.buf = probe.buf
             /\ \A other \in DOMAIN probe.phase \ {rank} :
                   probe'.grid[other] = probe.grid[other]

(* C26: for every number of processes, one addGaussian in Grid mode adds
   the hill's value and derivatives at each neighbour exactly once to the
   grid of each process; before comm.Sum a process writes only its own
   buffers, its grid changes only after comm.Sum has returned, and when it
   is done its grid is the grid a single process would hold. *)
SplatOnce == []SplatState /\ [][SplatStep]_vars

(* Three processes added a hill to a grid that held one already *)
SplatOnceWitness ==
    /\ probe.op = "comm" /\ probe.size = 3
    /\ probe.pre # EmptyGrid
    /\ \A rank \in DOMAIN probe.phase : probe.phase[rank] = "done"
    /\ probe.grid[0] = SingleGrid /\ probe.grid[1] = SingleGrid
    /\ probe.grid[0] # probe.pre

-----------------------------------------------------------------------------
(* Walker r makes its update() of this step, in which the grid is dumped *)
DumpsNow(r) ==
    /\ Running(r) /\ ~done[r] /\ done'[r]
    /\ grid_ /\ nowDumpGrid(step)

(* C27: update() computes the height, adds the new hill, writes it to its
   own hills file, reads the files of the other walkers and only then dumps
   the grid: the grid written in a step holds the hill deposited and the
   hills of the other walkers read in that step. *)
SnapshotAfterPoll ==
    [][\A r \in Walkers : DumpsNow(r) => gridfile'[r] = BiasGrid_'[r]]_vars

-----------------------------------------------------------------------------
(* The value and the derivatives of the hill of the probe at its point
   without the interval correction, from the widths or the packed matrix *)
FreeValue == IF D8 < 50 THEN (probe.hill.height * ExpTab[D8 + 1]) \div 100000 ELSE 0
FreeDer ==
    IF probe.hill.multivariate
    THEN <<0 - 4 * FreeValue
               * ((probe.cv[1] - probe.hill.center[1]) * probe.hill.sigma[1]
                  + (probe.cv[2] - probe.hill.center[2]) * probe.hill.sigma[2]),
           0 - 4 * FreeValue
               * ((probe.cv[1] - probe.hill.center[1]) * probe.hill.sigma[2]
                  + (probe.cv[2] - probe.hill.center[2]) * probe.hill.sigma[3])>>
    ELSE [i \in Args |->
            (0 - 4 * FreeValue * (probe.cv[i] - probe.hill.center[i]))
               \div (probe.hill.sigma[i] * probe.hill.sigma[i])]

(* C28: with the interval correction on, the value and the derivatives of a
   hill are 0 exactly at the points whose first argument is outside the
   closed interval [lowI_, uppI_]; at every point with
   lowI_ <= cv[0] <= uppI_, the limits included, they are what they are
   without the correction. *)
ClosedInterval ==
    (probe.op \in {"value", "gridvalue"} /\ doInt_) =>
       /\ (probe.cv[1] < lowI_ \/ probe.cv[1] > uppI_) =>
             (probe.out.bias = 0 /\ probe.out.der = <<0, 0>>)
       /\ (lowI_ <= probe.cv[1] /\ probe.cv[1] <= uppI_) =>
             (probe.out.bias = FreeValue /\ probe.out.der = FreeDer)

-----------------------------------------------------------------------------
(* The hills file while its owner writes, a peer polls and the owner may be
   killed.  MetaD::writeGaussian is a sequence of calls on the OFile:
   printField(name, value) for every field, then printField().  The OFile
   keeps the fields it was given in memory and printField() appends them to
   the file as one line; a line of the file is the record with the names of
   the fields it holds *)
MaxWrites == 2
EndOfRecord == <<"printField">>

(* A writer that ends the record before the clock field *)
writeGaussianCallsEarly(rec) ==
    <<<<"time">>>>
    \o [i \in Args |-> <<ArgNames[i]>>]
    \o <<<<"multivariate">>>>
    \o [k \in DOMAIN rec.sigma |-> rec.sigma[k].name]
    \o <<<<"height">>, <<"biasf">>>>
    \o <<EndOfRecord>>
    \o (IF rec.clock THEN <<<<"clock">>>> ELSE <<>>)

(* The calls of MetaD::writeGaussian, in order, for the record rec *)
writeGaussianCalls(rec) ==
    <<<<"time">>>>
    \o [i \in Args |-> <<ArgNames[i]>>]
    \o <<<<"multivariate">>>>
    \o [k \in DOMAIN rec.sigma |-> rec.sigma[k].name]
    \o <<<<"height">>, <<"biasf">>>>
    \o (IF rec.clock THEN <<<<"clock">>>> ELSE <<>>)
    \o <<EndOfRecord>>

(* The fields of a record that scanOneHill reads *)
FieldNames(rec) ==
    {<<"time">>, <<"multivariate">>, <<"height">>, <<"biasf">>}
    \cup {<<ArgNames[i]>> : i \in Args}
    \cup {rec.sigma[k].name : k \in DOMAIN rec.sigma}
    \cup (IF rec.clock THEN {<<"clock">>} ELSE {})

(* OFile::printField: of is the OFile, [fields, rec, recs] *)
printField(of, call, rec) ==
    IF call = EndOfRecord
    THEN [fields |-> {}, rec |-> rec,
          recs |-> Append(of.recs, [rec |-> of.rec, fields |-> of.fields])]
    ELSE [fields |-> of.fields \cup {call}, rec |-> rec, recs |-> of.recs]

RecordHills ==
    {Gaussian(c, sigma0_, height0_, FALSE) : c \in CVs}
    \cup {Gaussian(c, s, height0_, TRUE) : c \in CVs, s \in FlexOut}

InitRecord ==
    /\ mw_n_ \in WalkersN
    /\ grid_ = FALSE
    /\ biasf_ \in {1, 2}
    /\ wgridstride_ = 0
    /\ adaptive_ = [r \in Walkers |-> "NONE"]
    /\ input = InputOf("NONE", biasf_, grid_, wgridstride_, mw_n_)
    /\ error = ""
    /\ pc = [r \in Walkers |-> "none"]
    /\ NoRun
    /\ probe = [op |-> "log", up |-> TRUE, calls |-> <<>>, written |-> <<>>,
                ofile |-> [fields |-> {}, rec |-> <<>>, recs |-> <<>>],
                pos |-> 0, out |-> <<>>, restarts |-> 0,
                during |-> FALSE, after |-> FALSE]

RecordFrame ==
    UNCHANGED <<mw_n_, grid_, biasf_, wgridstride_, pc, adaptive_, step, done,
                isFirstStep, hills_, BiasGrid_, ifiles, files, gridfile, added,
                origin, lastPoll, flexbin, updated, run, ref, input, error>>

(* update() of the owner enters writeGaussian with a new hill *)
BeginWrite ==
    /\ probe.op = "log" /\ probe.up /\ probe.calls = <<>>
    /\ Len(probe.written) < MaxWrites
    /\ \E hill \in RecordHills :
         probe' = [probe EXCEPT
                     !.calls = writeGaussianCalls(writeGaussian(hill, step)),
                     !.ofile.rec = writeGaussian(hill, step),
                     !.written = Append(@, hill)]
    /\ RecordFrame

(* The next call of writeGaussian on the OFile *)
NextCall ==
    /\ probe.op = "log" /\ probe.up /\ probe.calls # <<>>
    /\ probe' = [probe EXCEPT
                   !.calls = Tail(@),
                   !.ofile = printField(@, Head(probe.calls), probe.ofile.rec)]
    /\ RecordFrame

(* The owner is killed inside writeGaussian: what its OFile held in memory
   is lost *)
Crash ==
    /\ probe.op = "log" /\ probe.up /\ probe.calls # <<>>
    /\ probe.restarts < MaxRestarts
    /\ probe' = [probe EXCEPT
                   !.up = FALSE, !.calls = <<>>, !.ofile.fields = {},
                   !.written = SubSeq(@, 1, Len(@) - 1),
                   !.restarts = @ + 1]
    /\ RecordFrame

(* The owner restarts: hillsOfile_.open(ifilesnames[mw_id_],"aw") *)
Reopen ==
    /\ probe.op = "log" /\ ~probe.up
    /\ probe' = [probe EXCEPT !.up = TRUE]
    /\ RecordFrame

(* readGaussians of a reader whose IFile is at pos: a peer in update(), or
   a restart, at any moment of the owner *)
Poll ==
    /\ probe.op = "log"
    /\ probe' = [probe EXCEPT
                   !.out = @ \o readGaussians(NoAcc,
                                              [k \in DOMAIN probe.ofile.recs |->
                                                 probe.ofile.recs[k].rec],
                                              probe.pos).all,
                   !.pos = Len(probe.ofile.recs),
                   !.during = @ \/ probe.calls # <<>>,
                   !.after = @ \/ ~probe.up]
    /\ RecordFrame

NextRecord == BeginWrite \/ NextCall \/ Crash \/ Reopen \/ Poll
SpecRecord == InitRecord /\ [][NextRecord]_vars

-----------------------------------------------------------------------------
(* The runs of two walkers with MetaD::calculate of walker 0 called, once
   or more, before its update() of a step.  probe holds the last call: the walker, the point, the bias and
   the forces it set, the run and the number of hills the accumulator had
   taken, and, when the call before it was at the same point of the same
   accumulator, what that call set *)

(* A calculate that sets no bias before the first update() *)
calculateAfterFirst(r, cv) ==
    IF isFirstStep[r]
    THEN [bias |-> 0, force |-> ZeroDer]
    ELSE [bias |-> getBiasAndDerivatives(cv, hills_[r], BiasGrid_[r]).bias,
          force |-> [i \in Args |->
                       0 - getBiasAndDerivatives(cv, hills_[r], BiasGrid_[r]).der[i]]]

(* MetaD::calculate: the value of the component bias and the output forces *)
calculate(r, cv) ==
    [bias |-> getBiasAndDerivatives(cv, hills_[r], BiasGrid_[r]).bias,
     force |-> [i \in Args |->
                  0 - getBiasAndDerivatives(cv, hills_[r], BiasGrid_[r]).der[i]]]

SameCall(r, cv) ==
    /\ probe.op = "calculate"
    /\ probe.r = r /\ probe.cv = cv
    /\ probe.run = run[r] /\ probe.n = Len(added[r])

Calculate(r) ==
    /\ pc[r] = "run"
    /\ ~done[r]
    /\ \E cv \in CVs :
         probe' = [op |-> "calculate", r |-> r, cv |-> cv,
                   out |-> calculate(r, cv),
                   run |-> run[r], n |-> Len(added[r]),
                   twice |-> SameCall(r, cv),
                   before |-> IF SameCall(r, cv) THEN probe.out ELSE calculate(r, cv)]
    /\ UNCHANGED <<mw_n_, grid_, biasf_, wgridstride_, pc, adaptive_, step, done,
                   isFirstStep, hills_, BiasGrid_, ifiles, files, gridfile, added,
                   origin, lastPoll, flexbin, updated, run, ref, input, error>>

InitCalc ==
    /\ Init /\ mw_n_ = 2 /\ biasf_ = 1
    /\ adaptive_[0] = "NONE" /\ wgridstride_ = (IF grid_ THEN 2 ELSE 0)
(* Walker 0 calls calculate(); its process is the one that is restarted *)
NextCalc ==
    \/ NextStep
    \/ \E r \in Walkers : Start(r) \/ Update(r)
    \/ Restart(0)
    \/ Calculate(0)
SpecCalc == InitCalc /\ [][NextCalc]_vars

-----------------------------------------------------------------------------
(* analysis/Average.cpp: the AVERAGE action with one argument of rank 0
   without derivatives.  probe is the action: its keywords, clearnextstep,
   the data and the norm of its outputs (output 0 and, for a periodic
   argument, the components sin and cos), the step of the engine, and, as
   history, every sample the engine offered at a step on which the action
   is on-stride.  The argument of a periodic run is in quarter turns of its
   period, so that sin and cos are exact; cweight is the exponential of the
   sum of the LOGWEIGHTS arguments, 1 without them *)
MaxAverageStep == 4
Strides == {1, 2}
Clears == {0, 1, 2, 4}
Normalizations == {"t", "f", "ndata"}
Samples == {0, 1, 2}
Weights == {1, 2}

Sin4(q) == <<0, 1, 0, 0 - 1>>[(q % 4) + 1]
Cos4(q) == <<1, 0, 0 - 1, 0>>[(q % 4) + 1]

(* ActionPilot::onStep *)
onStep(a) == a.step % a.stride = 0

(* Value::clearDerivatives, Value::setNorm, Value::add on an output *)
Value_clearDerivatives(v) == [v EXCEPT !.data = 0]
Value_setNorm(v, norm) == [v EXCEPT !.norm = norm]
Value_add(v, x) == [v EXCEPT !.data = @ + x]

(* The constructor: the outputs after addValue, addComponent and setNorm *)
Average(stride, clearstride, periodic, normalization) ==
    [op |-> "average", stride |-> stride, clearstride |-> clearstride,
     periodic |-> periodic, normalization |-> normalization,
     clearnextstep |-> FALSE, step |-> 0,
     val |-> [data |-> 0, norm |-> 0],
     valsin |-> [data |-> 0, norm |-> 0],
     valcos |-> [data |-> 0, norm |-> 0],
     offered |-> <<>>]

(* "if( clearnextstep )" of Average::update *)
clear(a) ==
    IF ~a.clearnextstep THEN a
    ELSE [a EXCEPT
            !.val = IF a.normalization # "f" /\ ~a.periodic
                    THEN Value_setNorm(Value_clearDerivatives(@), 0)
                    ELSE Value_clearDerivatives(@),
            !.valsin = IF a.normalization # "f" /\ a.periodic
                       THEN Value_setNorm(@, 0) ELSE @,
            !.valcos = IF a.normalization # "f" /\ a.periodic
                       THEN Value_setNorm(@, 0) ELSE @,
            !.clearnextstep = FALSE]

(* "Accumulate normalization" *)
addNorm(a, v, cweight) ==
    IF a.normalization = "t" THEN Value_setNorm(v, v.norm + cweight)
    ELSE IF a.normalization = "ndata" THEN Value_setNorm(v, v.norm + 1)
    ELSE v

(* atan2(y, x): the angle, kept exact as the direction of (x, y), the pair
   divided by its greatest common divisor; a positive norm that divides both
   leaves it as it is *)
RECURSIVE Gcd(_, _)
Gcd(m, n) == IF n = 0 THEN m ELSE Gcd(n, m % n)
Atan2(y, x) ==
    IF y = 0 /\ x = 0 THEN <<0, 0>>
    ELSE <<Quot(y, Gcd(Abs(y), Abs(x))), Quot(x, Gcd(Abs(y), Abs(x)))>>

(* "Now calcualte average": val->set from the components *)
setAngle(a) == [a EXCEPT !.val.data = Atan2(a.valsin.data, a.valcos.data)]

(* "Now accumulate average" *)
accumulate(a, arg, cweight) ==
    IF a.periodic
    THEN setAngle([a EXCEPT
            !.valsin = Value_add(addNorm(a, @, cweight), cweight * Sin4(arg)),
            !.valcos = Value_add(addNorm(a, @, cweight), cweight * Cos4(arg))])
    ELSE [a EXCEPT !.val = Value_add(addNorm(a, @, cweight), cweight * arg)]

(* "Clear if required" *)
clearRequired(a) ==
    [a EXCEPT !.clearnextstep =
                 IF a.clearstride > 0 /\ a.step % a.clearstride = 0 THEN TRUE ELSE @]

(* Average::update *)
Average_update(a, arg, cweight) ==
    IF (a.clearstride # 1 /\ a.step = 0) \/ ~onStep(a) THEN a
    ELSE clearRequired(accumulate(clear(a), arg, cweight))

InitAverage ==
    /\ mw_n_ = 1
    /\ grid_ = FALSE
    /\ biasf_ = 1
    /\ wgridstride_ = 0
    /\ adaptive_ = [r \in Walkers |-> "NONE"]
    /\ input = InputOf("NONE", biasf_, grid_, wgridstride_, mw_n_)
    /\ error = ""
    /\ pc = [r \in Walkers |-> "none"]
    /\ NoRun
    /\ \E stride \in Strides, clearstride \in Clears, periodic \in BOOLEAN,
          normalization \in Normalizations :
          /\ clearstride % stride = 0
          /\ probe = Average(stride, clearstride, periodic, normalization)

(* The engine's step: update() with the value of the argument and the
   weight of this step, then the next step *)
AverageStep ==
    /\ probe.op = "average"
    /\ probe.step <= MaxAverageStep
    /\ \E arg \in Samples, cweight \in Weights :
         probe' = [Average_update(probe, arg, cweight) EXCEPT
                     !.step = @ + 1,
                     !.offered = IF onStep(probe)
                                 THEN Append(@, [step |-> probe.step, arg |-> arg,
                                                 cweight |-> cweight])
                                 ELSE @]
    /\ UNCHANGED <<mw_n_, grid_, biasf_, wgridstride_, pc, adaptive_, step, done,
                   isFirstStep, hills_, BiasGrid_, ifiles, files, gridfile, added,
                   origin, lastPoll, flexbin, updated, run, ref, input, error>>

NextAverage == AverageStep
SpecAverage == InitAverage /\ [][NextAverage]_vars

-----------------------------------------------------------------------------
(* A hill written by a run with one WALKERS_N and read by a run with
   another: the line of the file with the names of its fields, and the
   fields scanOneHill scans on it *)

(* A reader that scans the clock field without asking whether it exists *)
scanOneHillFieldsClock(line) ==
    {<<"time">>, <<"multivariate">>, <<"height">>, <<"biasf">>, <<"clock">>}
    \cup {<<ArgNames[i]>> : i \in Args}
    \cup (IF line.rec.multivariate = "true"
          THEN {BandName(k) : k \in 1 .. NSigma(TRUE)}
          ELSE {DiagName(i) : i \in Args})

(* The scanField calls of MetaD::scanOneHill on a line *)
scanOneHillFields(line) ==
    {<<"time">>, <<"multivariate">>, <<"height">>, <<"biasf">>}
    \cup {<<ArgNames[i]>> : i \in Args}
    \cup (IF line.rec.multivariate = "true"
          THEN {BandName(k) : k \in 1 .. NSigma(TRUE)}
          ELSE {DiagName(i) : i \in Args})
    \cup (IF <<"clock">> \in line.fields THEN {<<"clock">>} ELSE {})

(* The line writeGaussian leaves in the file *)
LineOf(rec) ==
    [rec |-> rec,
     fields |-> {writeGaussianCalls(rec)[k] : k \in DOMAIN writeGaussianCalls(rec)}
                \ {EndOfRecord}]

InitClock ==
    /\ mw_n_ \in WalkersN
    /\ grid_ = FALSE
    /\ biasf_ \in {1, 2}
    /\ wgridstride_ = 0
    /\ adaptive_ = [r \in Walkers |-> "NONE"]
    /\ input = InputOf("NONE", biasf_, grid_, wgridstride_, mw_n_)
    /\ error = ""
    /\ pc = [r \in Walkers |-> "none"]
    /\ NoRun
    /\ probe \in [op : {"hill"}, hill : FileHills]

ClockFrame ==
    UNCHANGED <<grid_, biasf_, wgridstride_, pc, adaptive_, step, done,
                isFirstStep, hills_, BiasGrid_, ifiles, files, gridfile, added,
                origin, lastPoll, flexbin, updated, run, ref, error>>

(* writeGaussian of the hill by a run with WALKERS_N = mw_n_ *)
WriteLine ==
    /\ probe.op = "hill"
    /\ probe' = [op |-> "line", hill |-> probe.hill, writer |-> mw_n_,
                 line |-> LineOf(writeGaussian(probe.hill, step))]
    /\ UNCHANGED <<mw_n_, input>>
    /\ ClockFrame

(* The run that reads the file has its own WALKERS_N *)
OtherRun ==
    /\ probe.op = "line"
    /\ \E n \in WalkersN :
         /\ mw_n_' = n
         /\ input' = InputOf("NONE", biasf_, grid_, wgridstride_, n)
    /\ probe' = [probe EXCEPT !.op = "file"]
    /\ ClockFrame

(* readGaussians of the line *)
ScanLine ==
    /\ probe.op = "file"
    /\ probe' = [op |-> "read", hill |-> probe.hill, writer |-> probe.writer,
                 line |-> probe.line,
                 scanned |-> scanOneHillFields(probe.line),
                 out |-> IF scanOneHillFields(probe.line) \subseteq probe.line.fields
                         THEN readGaussians(NoAcc, <<probe.line.rec>>, 0).all
                         ELSE <<>>]
    /\ UNCHANGED <<mw_n_, input>>
    /\ ClockFrame

NextClock == WriteLine \/ OtherRun \/ ScanLine
SpecClock == InitClock /\ [][NextClock]_vars

-----------------------------------------------------------------------------
(* The multiple-walkers keywords: what the constructor parses and checks,
   the file names it builds, the file it opens for writing, and the test of
   update() that starts a poll.  mw_n_, mw_id_ and mw_rstride_ are ints with
   the defaults 1, 0 and 1; the keywords are given here with values around
   the valid ones. *)

MaxWalkerStep == 3
WalkersNGiven == 0 .. 2
WalkersIdGiven == (0 - 1) .. 2
WalkersRstrideGiven == (0 - 1) .. 2

(* "fname = mw_dir_+"/"+hillsfname+"."+out.str()" for i = 0 .. mw_n_-1, or
   hillsfname alone for a single walker; position i+1 holds the name of i *)
ifilesnames(mw_n) ==
    [k \in 1 .. mw_n |-> IF mw_n > 1 THEN <<"HILLS", k - 1>> ELSE <<"HILLS">>]

(* The remainder of C++ for a dividend >= 0 and a divisor # 0: the sign of
   the divisor does not matter *)
Rem(a, b) == a % (IF b < 0 THEN 0 - b ELSE b)

(* "mw_n_>1 && getStep()%mw_rstride_==0", defined for mw_rstride_ # 0 *)
readWalkersAt(mw_n, mw_rstride, s) == mw_n > 1 /\ Rem(s, mw_rstride) = 0

InitWalkers ==
    /\ mw_n_ = 1
    /\ grid_ = FALSE
    /\ biasf_ = 1
    /\ wgridstride_ = 0
    /\ adaptive_ = [r \in Walkers |-> "NONE"]
    /\ input = InputOf("NONE", biasf_, grid_, wgridstride_, mw_n_)
    /\ error = ""
    /\ pc = [r \in Walkers |-> "none"]
    /\ NoRun
    /\ probe \in [op : {"keywords"}, WALKERS_N : WalkersNGiven,
                  WALKERS_ID : WalkersIdGiven, WALKERS_RSTRIDE : WalkersRstrideGiven]

WalkersFrame ==
    UNCHANGED <<mw_n_, grid_, biasf_, wgridstride_, pc, adaptive_, step, done,
                isFirstStep, hills_, BiasGrid_, ifiles, files, gridfile, added,
                origin, lastPoll, flexbin, updated, run, ref, error, input>>

(* parse of the four keywords and the one check on them *)
ParseWalkers ==
    /\ probe.op = "keywords"
    /\ probe' = IF walkersError(probe, probe.WALKERS_ID) # ""
                THEN [op |-> "error", msg |-> walkersError(probe, probe.WALKERS_ID)]
                ELSE [op |-> "parsed", mw_n_ |-> probe.WALKERS_N,
                      mw_id_ |-> probe.WALKERS_ID,
                      mw_rstride_ |-> probe.WALKERS_RSTRIDE]
    /\ WalkersFrame

(* The file loop and "hillsOfile_.open(ifilesnames[mw_id_])".  An index
   outside the vector is undefined: the process stops, or goes on with
   whatever name it found there *)
OpenFiles ==
    /\ probe.op = "parsed"
    /\ \/ /\ probe.mw_id_ + 1 \in DOMAIN ifilesnames(probe.mw_n_)
          /\ probe' = [op |-> "run", mw_n_ |-> probe.mw_n_, mw_id_ |-> probe.mw_id_,
                       mw_rstride_ |-> probe.mw_rstride_,
                       own |-> ifilesnames(probe.mw_n_)[probe.mw_id_ + 1],
                       step |-> 0, polls |-> 0]
       \/ /\ probe.mw_id_ + 1 \notin DOMAIN ifilesnames(probe.mw_n_)
          /\ \/ probe' = [op |-> "crashed", at |-> "ifilesnames[mw_id_]"]
             \/ probe' = [op |-> "run", mw_n_ |-> probe.mw_n_,
                          mw_id_ |-> probe.mw_id_,
                          mw_rstride_ |-> probe.mw_rstride_,
                          own |-> <<"undefined">>, step |-> 0, polls |-> 0]
    /\ WalkersFrame

(* The test of update() for the poll at step probe.step.  A remainder by 0
   is undefined: the process stops, or goes on with either outcome *)
UpdateWalkers ==
    /\ probe.op = "run"
    /\ probe.step < MaxWalkerStep
    /\ \/ /\ ~(probe.mw_n_ > 1 /\ probe.mw_rstride_ = 0)
          /\ probe' = [probe EXCEPT
                         !.step = @ + 1,
                         !.polls = IF readWalkersAt(probe.mw_n_, probe.mw_rstride_,
                                                    probe.step)
                                   THEN @ + 1 ELSE @]
       \/ /\ probe.mw_n_ > 1 /\ probe.mw_rstride_ = 0
          /\ \/ probe' = [op |-> "crashed", at |-> "getStep()%mw_rstride_"]
             \/ \E p \in 0 .. 1 :
                  probe' = [probe EXCEPT !.step = @ + 1, !.polls = @ + p]
    /\ WalkersFrame

NextWalkers == ParseWalkers \/ OpenFiles \/ UpdateWalkers
SpecWalkers == InitWalkers /\ [][NextWalkers]_vars

-----------------------------------------------------------------------------
(* A hill written by a run with one BIASFACTOR and read by a run with
   another: writeGaussian prints the height scaled by biasf_/(biasf_-1) and
   biasf_ itself, readGaussians scales the height it scans by
   (biasf_-1)/biasf_ of the run that reads. *)

Biasfs == {1, 2, 3}

InitBiasf ==
    /\ mw_n_ \in WalkersN
    /\ grid_ = FALSE
    /\ biasf_ \in Biasfs
    /\ wgridstride_ = 0
    /\ adaptive_ = [r \in Walkers |-> "NONE"]
    /\ input = InputOf("NONE", biasf_, grid_, wgridstride_, mw_n_)
    /\ error = ""
    /\ pc = [r \in Walkers |-> "none"]
    /\ NoRun
    /\ probe \in [op : {"hill"}, hill : FileHills]

BiasfFrame ==
    UNCHANGED <<mw_n_, grid_, wgridstride_, pc, adaptive_, step, done,
                isFirstStep, hills_, BiasGrid_, ifiles, files, gridfile, added,
                origin, lastPoll, flexbin, updated, run, ref, error>>

(* writeGaussian of the hill by a run with BIASFACTOR = biasf_ *)
WriteRecord ==
    /\ probe.op = "hill"
    /\ probe' = [op |-> "record", hill |-> probe.hill, writer |-> biasf_,
                 rec |-> writeGaussian(probe.hill, step)]
    /\ UNCHANGED <<biasf_, input>>
    /\ BiasfFrame

(* The run that reads the file has its own BIASFACTOR *)
ReaderRun ==
    /\ probe.op = "record"
    /\ \E b \in Biasfs :
         /\ biasf_' = b
         /\ input' = InputOf("NONE", b, grid_, wgridstride_, mw_n_)
    /\ probe' = [probe EXCEPT !.op = "file"]
    /\ BiasfFrame

(* readGaussians of the record *)
ReadRecord ==
    /\ probe.op = "file"
    /\ probe' = [op |-> "read", hill |-> probe.hill, writer |-> probe.writer,
                 rec |-> probe.rec,
                 out |-> readGaussians(NoAcc, <<probe.rec>>, 0).all]
    /\ UNCHANGED <<biasf_, input>>
    /\ BiasfFrame

NextBiasf == WriteRecord \/ ReaderRun \/ ReadRecord
SpecBiasf == InitBiasf /\ [][NextBiasf]_vars

-----------------------------------------------------------------------------
(* C29: whenever the interval correction is on, the grid is built with
   spline false, with or without GRID_NOSPLINE; without the correction it
   is built with spline true exactly when GRID_NOSPLINE is absent. *)
SplineOff ==
    (pc[0] \notin {"input", "error"} /\ grid_) =>
       /\ probe.op = "MetaD"
       /\ doInt_ => ~probe.spline
       /\ ~doInt_ => (probe.spline <=> ~input.GRID_NOSPLINE)

(* A process with the interval correction and without GRID_NOSPLINE built
   its grid *)
SplineOffWitness ==
    /\ pc[0] = "run" /\ grid_ /\ BiasGrid_[0] # NoGrid
    /\ doInt_ /\ ~input.GRID_NOSPLINE
    /\ ~probe.spline

-----------------------------------------------------------------------------
(* C30: a reader never builds a hill from a partly written record.  Every
   line of a hills file holds all the fields of its record, whatever the
   moment at which the owner is polled or killed, and every hill a reader
   added has the centre, the height and the shape of the hill whose record,
   written to its end, is at that place before the reader's cursor. *)
RecordAtomic ==
    probe.op = "log" =>
       /\ \A k \in DOMAIN probe.ofile.recs :
             probe.ofile.recs[k].fields = FieldNames(probe.ofile.recs[k].rec)
       /\ probe.pos <= Len(probe.ofile.recs)
       /\ Len(probe.out) = probe.pos
       /\ \A k \in DOMAIN probe.out :
             /\ probe.ofile.recs[k].rec = writeGaussian(probe.written[k], step)
             /\ probe.out[k].center = probe.written[k].center
             /\ probe.out[k].height = probe.written[k].height
             /\ probe.out[k].multivariate = probe.written[k].multivariate

(* A reader that polled during a writeGaussian and after the owner was
   killed inside one holds a hill, and the owner wrote again *)
RecordAtomicWitness ==
    /\ probe.op = "log"
    /\ probe.during /\ probe.after /\ probe.restarts > 0
    /\ mw_n_ > 1
    /\ Len(probe.out) = MaxWrites

-----------------------------------------------------------------------------
(* C31: evaluating the bias changes nothing that persists.  A call of
   calculate() leaves the hill lists, the grids, the hills files and the
   cursors of every walker as they are, and a call at the point of the call
   before it, with no hill added to the accumulator in between, sets the
   same bias and the same forces. *)
CalculateFrame ==
    probe' # probe =>
       /\ probe'.op = "calculate"
       /\ hills_' = hills_ /\ BiasGrid_' = BiasGrid_
       /\ files' = files /\ ifiles' = ifiles
       /\ added' = added /\ isFirstStep' = isFirstStep

CalculateTwice ==
    (probe.op = "calculate" /\ probe.twice) => probe.out = probe.before

(* C31: calculate() has no side effect: every step that is a call of it
   leaves every persistent variable alone, and a second call at the same
   point with no hill added in between gives the same bias and forces. *)
SideEffectFree == []CalculateTwice /\ [][CalculateFrame]_vars

(* Two calls at the same point of an accumulator that holds hills of the
   walker and of its peer set a bias and a force that are not zero *)
SideEffectFreeWitness ==
    /\ probe.op = "calculate" /\ probe.twice
    /\ probe.out.bias > 0
    /\ \E i \in Args : probe.out.force[i] # 0
    /\ ~isFirstStep[probe.r]
    /\ ifiles[probe.r][1 - probe.r].pos > 0
    /\ \E k \in DOMAIN origin[probe.r] : origin[probe.r][k].local

-----------------------------------------------------------------------------
(* C32: with ADAPTIVE every update() advances the FlexibleBin exactly once,
   before anything else, whether or not it adds a hill and also when it is
   the first update() of the run, and asks for its matrix exactly once when
   it adds a hill and not at all otherwise; without ADAPTIVE update() never
   calls the FlexibleBin.  No other step makes a call. *)
CallsOf(r, name) == Len(SelectSeq(flexbin'[r], LAMBDA c : c.call = name))

AdapterCalls ==
    \A r \in Walkers :
       IF ~done[r] /\ done'[r]
       THEN IF adaptive_[r] = "NONE"
            THEN flexbin'[r] = <<>>
            ELSE /\ CallsOf(r, "update") = 1
                 /\ flexbin'[r][1].call = "update"
                 /\ CallsOf(r, "getInverseMatrix") =
                      (IF Len(files'[r].recs) > Len(files[r].recs) THEN 1 ELSE 0)
                 /\ Len(flexbin'[r]) = CallsOf(r, "update") + CallsOf(r, "getInverseMatrix")
       ELSE flexbin'[r] = flexbin[r] \/ (run'[r] # run[r] /\ flexbin'[r] = <<>>)

(* C32: every update() of an adaptive run calls flexbin->update exactly
   once, on deposition steps or not, and getInverseMatrix exactly when it
   deposits; no other step calls the FlexibleBin. *)
AdapterOncePerStep == [][AdapterCalls]_vars

(* In an adaptive run of two walkers, walker 0 added a hill in its update()
   of a step and walker 1 made its first update() at that step, which is a
   multiple of PACE *)
AdapterOncePerStepWitness ==
    /\ mw_n_ = 2 /\ adaptive_[0] # "NONE" /\ adaptive_[1] # "NONE"
    /\ step > 0 /\ step % stride_ = 0
    /\ done[0] /\ done[1]
    /\ Len(flexbin[0]) = 2 /\ files[0].recs # <<>>
    /\ files[0].recs[Len(files[0].recs)].time = step
    /\ Len(flexbin[1]) = 1 /\ files[1].recs = <<>> /\ run[1] = 1

-----------------------------------------------------------------------------
(* C33: with CLEAR=c > 0 the action computes block averages.  After an
   update() that took a sample, the sums and the norms hold the samples of
   the on-stride steps since the last multiple of c before this step and
   no earlier one, for an argument that is not periodic and for a periodic
   one, whose sums are those of the components sin and cos. *)
BlockStart(a) ==
    IF a.step <= 1 THEN 0 - 1 ELSE a.clearstride * ((a.step - 2) \div a.clearstride)

InBlock(a) == SelectSeq(a.offered, LAMBDA e : e.step > BlockStart(a))

TermOf(e, kind) ==
    IF kind = "sin" THEN e.cweight * Sin4(e.arg)
    ELSE IF kind = "cos" THEN e.cweight * Cos4(e.arg)
    ELSE IF kind = "arg" THEN e.cweight * e.arg
    ELSE e.cweight

SumSeq(q, kind) == SumTo(Len(q), [k \in DOMAIN q |-> TermOf(q[k], kind)])

NormOf(a, q) ==
    IF a.normalization = "t" THEN SumSeq(q, "cweight") ELSE Len(q)

TookSample(a) ==
    /\ a.op = "average" /\ a.step > 0
    /\ (a.step - 1) % a.stride = 0
    /\ ~(a.clearstride # 1 /\ a.step = 1)

(* C33: with CLEAR > 0 the sums, the norms and the reported value after an
   update() that took a sample hold the samples of the current block
   only. *)
BlockAverages ==
    (TookSample(probe) /\ probe.clearstride > 0) =>
       IF probe.periodic
       THEN /\ probe.valsin.data =
                 SumSeq(InBlock(probe), "sin")
            /\ probe.valcos.data =
                 SumSeq(InBlock(probe), "cos")
            /\ probe.val.data =
                 Atan2(SumSeq(InBlock(probe), "sin"),
                       SumSeq(InBlock(probe), "cos"))
            /\ probe.normalization # "f" =>
                   /\ probe.valsin.norm = NormOf(probe, InBlock(probe))
                   /\ probe.valcos.norm = NormOf(probe, InBlock(probe))
       ELSE /\ probe.val.data = SumSeq(InBlock(probe), "arg")
            /\ probe.normalization # "f" =>
                   probe.val.norm = NormOf(probe, InBlock(probe))

(* C34: with CLEAR=0 all the data is used.  After the update() of a step
   the sums and the norms hold one sample for every on-stride step from
   step 0 on, and clearnextstep is not set. *)
AllData ==
    (probe.op = "average" /\ probe.clearstride = 0) =>
       /\ ~probe.clearnextstep
       /\ IF probe.periodic
          THEN /\ probe.valsin.data =
                    SumSeq(probe.offered, "sin")
               /\ probe.valcos.data =
                    SumSeq(probe.offered, "cos")
               /\ probe.normalization # "f" =>
                      probe.valsin.norm = NormOf(probe, probe.offered)
          ELSE /\ probe.val.data = SumSeq(probe.offered, "arg")
               /\ probe.normalization # "f" =>
                      probe.val.norm = NormOf(probe, probe.offered)

-----------------------------------------------------------------------------
(* C35: an update() adds at most one hill of its own, and adds one exactly
   when the step is a multiple of PACE and the call is not the first
   update() of the run, fresh or restarted; the hill goes to the
   accumulator and to the own file.  No other step adds a local hill. *)
LocalsAdded(r) ==
    Len(SelectSeq(origin'[r], LAMBDA e : e.local))
    - Len(SelectSeq(origin[r], LAMBDA e : e.local))

DepositRule ==
    \A r \in Walkers :
       IF ~done[r] /\ done'[r]
       THEN /\ LocalsAdded(r) \in {0, 1}
            /\ Len(files'[r].recs) = Len(files[r].recs) + LocalsAdded(r)
            /\ LocalsAdded(r) = 1 <=> (step % stride_ = 0 /\ updated[r])
            /\ updated'[r]
       ELSE /\ files'[r].recs = files[r].recs
            /\ run'[r] = run[r] => LocalsAdded(r) = 0

(* C35: every update() adds at most one local hill, one exactly at a
   multiple of PACE that is not the first update() of its run, and writes
   one record with it. *)
OneHillPerPace == [][DepositRule]_vars

(* A walker that added a hill at a multiple of PACE was restarted at that
   step, and the first update() of the new run, at the same step, added
   none *)
OneHillPerPaceWitness ==
    /\ step > 0 /\ step % stride_ = 0
    /\ run[0] = 2 /\ done[0] /\ updated[0]
    /\ Len(files[0].recs) = 1 /\ files[0].recs[1].time = step
    /\ \A k \in DOMAIN origin[0] : ~origin[0][k].local

-----------------------------------------------------------------------------
(* C36: a poll that finds the file of a peer not open and existing opens it
   and adds no hill from it; a poll of an open file adds the records after
   the cursor, in order, so the records that were in the file when it was
   opened come with the next poll; and every hill an update() adds, read or
   deposited, goes through addGaussian, a read one with the height rescaled
   as readGaussians does. *)
NewFrom(r, i) ==
    SelectSeq(SubSeq(origin'[r], Len(origin[r]) + 1, Len(origin'[r])),
              LAMBDA e : e.src = i /\ ~e.local)

RECURSIVE addGaussians(_, _, _)
addGaussians(acc, hills, k) ==
    IF k > Len(hills) THEN acc
    ELSE addGaussians(addGaussian(acc, hills[k]), hills, k + 1)

PollStep ==
    \A r \in Walkers :
       PollsNow(r) =>
          /\ \A i \in Walkers \ {r} :
                i < mw_n_ =>
                   IF ~ifiles[r][i].open
                   THEN /\ NewFrom(r, i) = <<>>
                        /\ ifiles'[r][i] = IF files[i].exists
                                           THEN [open |-> TRUE, pos |-> 0]
                                           ELSE ifiles[r][i]
                   ELSE /\ NewFrom(r, i) =
                             Tags(i, ifiles[r][i].pos + 1, Len(files[i].recs))
                        /\ ifiles'[r][i] = [open |-> TRUE, pos |-> Len(files[i].recs)]
          /\ Len(added'[r]) = Len(origin'[r])
          /\ \A k \in (Len(origin[r]) + 1) .. Len(origin'[r]) :
                ~origin'[r][k].local =>
                   /\ added'[r][k] = HillOf(files[origin'[r][k].src].recs[origin'[r][k].idx])
                   /\ added'[r][k].height =
                        (IF welltemp_
                         THEN (files[origin'[r][k].src].recs[origin'[r][k].idx].height
                               * (biasf_ - 1)) \div biasf_
                         ELSE files[origin'[r][k].src].recs[origin'[r][k].idx].height)
          /\ Acc(r)' = addGaussians(Acc(r), added'[r], Len(added[r]) + 1)

(* C36: a poll opens a peer file that is closed and reads nothing from
   it; it reads an open one from the cursor to the end, and every hill read
   enters the accumulator through addGaussian. *)
OpenThenReplay == [][PollStep]_vars

(* Walker 1 got the first hill of walker 0, with its height rescaled, at
   its poll of step 4, after its own second hill of that update() *)
OpenThenReplayWitness ==
    /\ mw_n_ = 2 /\ welltemp_ /\ run[1] = 1 /\ run[0] = 1
    /\ step = 2 * mw_rstride_ /\ done[1] /\ lastPoll[1] = step
    /\ Len(files[0].recs) >= 1
    /\ ifiles[1][0].open /\ ifiles[1][0].pos >= 1
    /\ \E k \in DOMAIN origin[1] :
          /\ k > 1
          /\ origin[1][k] = [src |-> 0, idx |-> 1, local |-> FALSE]
          /\ origin[1][k - 1].local /\ origin[1][k - 1].idx = 2

-----------------------------------------------------------------------------
(* C37: the clock field does not matter to the reader.  A line has the
   field exactly if a run with more than one walker wrote it; a reader with
   any WALKERS_N scans every field of the line, the clock when it is there,
   and no field the line lacks; and the hill it adds is the hill that was
   written, with its centre, shape, widths and height. *)
ClockIgnored ==
    probe.op = "read" =>
       /\ (<<"clock">> \in probe.line.fields) <=> (probe.writer > 1)
       /\ probe.scanned = probe.line.fields
       /\ probe.out = <<probe.hill>>

(* A run with one walker read the full-covariance hill of a run with two,
   and a line with the clock field *)
ClockIgnoredWitness ==
    /\ probe.op = "read" /\ probe.writer = 2 /\ mw_n_ = 1
    /\ <<"clock">> \in probe.scanned
    /\ probe.hill.multivariate /\ welltemp_
    /\ Len(probe.out) = 1

-----------------------------------------------------------------------------
(* C38: an update() that writes a grid snapshot, at a step that is a
   multiple of a GRID_WSTRIDE greater than 0, has a grid: the run of an
   input the constructor accepted is in Grid mode there, and the snapshot
   it leaves is its grid. *)
SnapshotStep ==
    \A r \in Walkers :
       (/\ parseError(input, r) = "" /\ wgridstride_ = input.GRID_WSTRIDE
        /\ pc[r] = "run" /\ ~done[r] /\ done'[r] /\ nowDumpGrid(step)) =>
          /\ grid_ /\ BiasGrid_[r] # NoGrid
          /\ pc'[r] = "run"
          /\ gridfile'[r] # NoGrid

(* C38: every update() that reaches the snapshot write, in a run of an
   accepted input, has a grid. *)
SnapshotHasGrid == [][SnapshotStep]_vars

-----------------------------------------------------------------------------
(* C39: after a successful configuration of the multiple walkers the values
   used at run time are valid: 0 <= mw_id_ < mw_n_, so that the name of the
   own file exists, and mw_rstride_ > 0 whenever update() polls, so that the
   remainder of the step by it is defined. *)
WalkersValid ==
    probe.op \in {"parsed", "run"} =>
       /\ 0 <= probe.mw_id_ /\ probe.mw_id_ < probe.mw_n_
       /\ probe.mw_n_ > 1 => probe.mw_rstride_ > 0

-----------------------------------------------------------------------------
(* C40: the height with which a replayed hill enters the accumulator is
   the height of the record scaled by (biasf_-1)/biasf_ of the run that
   reads, or the height of the record as it is without BIASFACTOR; the
   biasf field of the record, which holds the bias factor of the run that
   wrote it, changes nothing: the record with any other value in that field
   is read as the same hill, whether or not it equals the reader's. *)
BiasfDiscarded ==
    probe.op = "read" =>
       /\ probe.rec.biasf = probe.writer
       /\ Len(probe.out) = 1
       /\ probe.out[1].height =
             (IF biasf_ > 1 THEN (probe.rec.height * (biasf_ - 1)) \div biasf_
              ELSE probe.rec.height)
       /\ \A b \in Biasfs :
             readGaussians(NoAcc, <<[probe.rec EXCEPT !.biasf = b]>>, 0).all
                = probe.out

(* A run with BIASFACTOR 3 read the hill of a run with BIASFACTOR 2: the
   hill it added has another height than the hill that was written *)
BiasfDiscardedWitness ==
    /\ probe.op = "read" /\ probe.writer = 2 /\ biasf_ = 3
    /\ probe.rec.biasf # biasf_
    /\ Len(probe.out) = 1
    /\ probe.out[1].height # probe.hill.height


=============================================================================
